---- MODULE Spec2Model ----
(***************************************************************************)
(* The transaction submission engine of large_transactioneer:             *)
(* ExordeHighSpeedSender of transactioneer_with_queue.py (the queue-driven *)
(* variant of sender.py).  The engine's own state, the consumer loop       *)
(* run_high_speed_loop and submit_spotdata_transaction are modelled step   *)
(* by step; in the consumer loop (Spec) every section the code runs under  *)
(* one lock is one step, and for concurrent callers of the thread-safe     *)
(* methods (SpecPool) the sections are split at the lock.  The ledger      *)
(* behind the RPC endpoints is the environment: it answers a broadcast     *)
(* with acceptance, a nonce collision or another error, and it mines       *)
(* accepted transactions in nonce order.                                   *)
(***************************************************************************)
EXTENDS Integers, Sequences, FiniteSets, TLC

(* ------------------------------ bounds -------------------------------- *)
\* accounts loaded by load_accounts (their list indices stand for addresses)
NumAccounts == 2
\* largest number of sync nodes the network configuration may list
MaxNodes == 3
\* work items the producers enqueue during one run
MaxItems == 4
\* the transaction count the ledger holds at start for the accounts that
\* were used before the run (the others start at 0)
MaxSeed == 2
\* NONCE_REALIGNMENT_ITERATIONS, scaled down from 10000
NONCE_REALIGNMENT_ITERATIONS == 2
\* queue.Queue(maxsize=...), scaled down from 1000000
QueueMaxSize == 2
\* the target num_transactions of a run that has one
MaxTarget == 2
\* method calls the concurrent callers make in all
MaxCalls == 3
MaxBatch == 3
MaxFunded == 3
MaxFunders == 3
MaxCycles == 12
MaxFailedReads == 2
MaxTargets == 4

(* ------------------------- program constants -------------------------- *)
\* submit_spotdata_transaction(..., max_retries=3)
max_retries == 3

Accounts == 0 .. (NumAccounts - 1)
Threads == {"t1", "t2"}
\* monitor_nonces_increase.py: every 10th account is monitored, and the
\* history of an account is cut to its last 10 entries
sample_every_nth == 10
HistoryLimit == 10
NoValue == -1

VARIABLES
    \* configuration, fixed by the initialisation
    num_nodes,                \* len(self.w3_instances)
    consumers,                \* the threads that run run_high_speed_loop
    num_transactions,         \* the loop's target, 0 for None
    startup,                  \* the step of run() that comes next, or "aborted"
    malformed,                \* the accounts whose record in accounts_file has an
                              \* 'address' and lacks the 'index' key
    init_index,               \* initialize_nonces: next account to seed
    \* ExordeHighSpeedSender fields
    account_nonces,
    current_account_index,
    current_sync_node_index,
    transaction_queue,
    running,
    submissions_count,
    successful_submissions,
    failed_submissions,
    last_nonce_check,
    nonce_realignments,
    \* per thread: position in the loop and the locals of the call in progress
    pc,
    frame,
    \* the ledger
    chain,                    \* eth.get_transaction_count(address)
    accepted,                 \* nonces of this run's transactions a node accepted
    \* history (read by the properties only)
    enqueued,                 \* work items enqueued so far
    hist,                     \* per thread, what the current work item went through
    reserved,                 \* per account, the numbers handed out, in order
    epoch,                    \* per account, realignments that rewrote its counter
    reconciled,               \* per account, the value of a realignment no
                              \* reservation has followed yet, or NoValue
    lastSel,                  \* the latest get_next_sync_node results (at most num_nodes)
    read_log,                 \* per account, how its ledger read ended in the
                              \* initialisation or in the realignment pass in progress
    before,                   \* the counters as the realignment pass in progress found them
    \* the locks, and the threads that call the engine's methods directly
    sync_node_lock,
    nonce_locks,
    calls,                    \* method calls made so far by those threads
    \* what lies outside the engine's loop and methods
    program,                  \* the script that is run
    transactions_list,        \* add_transactions_batch: the items not yet put
    early_stop,               \* history: stop() was called before the loop was entered
    \* fund_accounts.py, ExordeAccountFunder
    main_initial,             \* the ledger's count of the main account at start-up
    main_nonce,
    funding_results,          \* one entry per fund_single_address call, with the
                              \* sequence number the call used
    funder_pc,
    \* quick_funding.py, SequentialHighSpeedFunder
    num_funders,              \* len(self.funding_accounts)
    num_targets,              \* len(self.target_accounts)
    funding_nonces,
    funding_schedule,
    funding_attempts,
    successful_fundings,
    failed_fundings,
    quick_pc,                 \* the phase, the funder and the position in its list
    fund_log,                 \* history: the fund_single_target calls, in order
    \* claim_master_all_addresses.py (its account_nonces is account_nonces)
    total_claims_attempted,
    total_claims_successful,
    total_claims_failed,
    claim_index,              \* the loop index of sequential_claim_master_all_accounts
    \* monitor_nonces_increase.py, ExordePoolMonitor
    nonce_history,
    increases_data,           \* what the latest cycle reported
    monitor_cycles,           \* cycles run so far; the time of a sample is its cycle
    monitor_chain,            \* the ledger's count of each monitored account
    monitor_failures          \* failed reads so far

config == <<num_nodes, consumers, num_transactions, startup, malformed>>
counters == <<submissions_count, successful_submissions, failed_submissions>>
ledger == <<chain, accepted>>
pool == <<sync_node_lock, nonce_locks, calls>>
passlog == <<read_log, before>>
engine == <<num_nodes, consumers, num_transactions, startup, malformed, init_index,
            account_nonces, current_account_index, current_sync_node_index,
            transaction_queue, running, submissions_count, successful_submissions,
            failed_submissions, last_nonce_check, nonce_realignments, pc, frame,
            chain, accepted, enqueued, hist, reserved, epoch, reconciled, lastSel,
            read_log, before, sync_node_lock, nonce_locks, calls>>
funder_vars == <<main_initial, main_nonce, funding_results, funder_pc>>
quick_vars == <<num_funders, num_targets, funding_nonces, funding_schedule,
                funding_attempts, successful_fundings, failed_fundings, quick_pc,
                fund_log>>
claim_vars == <<total_claims_attempted, total_claims_successful, total_claims_failed,
                claim_index>>
monitor_vars == <<nonce_history, increases_data, monitor_cycles, monitor_chain,
                  monitor_failures>>
scripts == <<funder_vars, quick_vars, claim_vars, monitor_vars>>
outside == <<program, transactions_list, early_stop, scripts>>
vars == <<num_nodes, consumers, num_transactions, startup, malformed, init_index, account_nonces, current_account_index,
          current_sync_node_index, transaction_queue, running, submissions_count,
          successful_submissions, failed_submissions, last_nonce_check,
          nonce_realignments, pc, frame, chain, accepted, enqueued, hist,
          reserved, epoch, reconciled, lastSel, read_log, before,
          sync_node_lock, nonce_locks, calls, program, transactions_list, early_stop,
          main_initial, main_nonce, funding_results, funder_pc,
          num_funders, num_targets, funding_nonces, funding_schedule,
          funding_attempts, successful_fundings, failed_fundings, quick_pc, fund_log,
          total_claims_attempted, total_claims_successful, total_claims_failed,
          claim_index,
          nonce_history, increases_data, monitor_cycles, monitor_chain,
          monitor_failures>>

(* ----------------------------- helpers -------------------------------- *)
\* a rotation that never moves
RoundRobinNext_Stuck(index, length) == index

\* a rotation that steps over an entry
RoundRobinNext_Skip(index, length) == (index + 2) % length

\* current_..._index = (current_..._index + 1) % len(...)
RoundRobinNext(index, length) == (index + 1) % length

\* a reservation that forgets the increment
ReserveUpdate_NoIncrement(current_nonce) == current_nonce

\* a reservation that increments twice
ReserveUpdate_Twice(current_nonce) == current_nonce + 2

\* get_next_nonce: self.account_nonces[address] += 1
ReserveUpdate(current_nonce) == current_nonce + 1

\* a realignment that compares and never writes
RealignValue_Keep(local_nonce, blockchain_nonce) == local_nonce

\* a realignment that only ever raises the counter
RealignValue_OnlyRaise(local_nonce, blockchain_nonce) ==
    IF blockchain_nonce > local_nonce THEN blockchain_nonce ELSE local_nonce

\* realign_all_nonces: if blockchain_nonce != local_nonce: counter = blockchain_nonce
RealignValue(local_nonce, blockchain_nonce) ==
    IF blockchain_nonce # local_nonce THEN blockchain_nonce ELSE local_nonce

\* an error classifier that takes every failure for a nonce collision
IsNonceCollision_AnyError(result) == result # "ok"

\* "same nonce already exists" in error_msg
IsNonceCollision(result) == result = "conflict"

\* a retry test that never gives up
ShouldRetry_Always(retry_attempt) == TRUE

\* a retry test that is off by one
ShouldRetry_OffByOne(retry_attempt) == retry_attempt < max_retries

\* if retry_attempt < max_retries - 1: continue
ShouldRetry(retry_attempt) == retry_attempt < max_retries - 1

\* a builder that signs with the counter's value after the increment
SignTransaction_NextNonce(address, nonce, item) == <<address, nonce + 1, item>>

\* build_transaction({... 'from': address, 'nonce': nonce ...}) then sign_transaction:
\* the signed bytes are a function of the sender, the nonce and the payload
SignTransaction(address, nonce, item) == <<address, nonce, item>>

\* signed_tx.rawTransaction
RawTransaction(signed_tx) == signed_tx

\* (variant) the trigger without the last_nonce_check guard
RealignDue_NoGuard(count, last) ==
    /\ count > 0
    /\ count % NONCE_REALIGNMENT_ITERATIONS = 0

\* submissions_count > 0 and submissions_count % K == 0 and != last_nonce_check
RealignDue(count, last) ==
    /\ count > 0
    /\ count % NONCE_REALIGNMENT_ITERATIONS = 0
    /\ count # last

\* a queue without a capacity
QueueFull_Never(q) == FALSE

\* queue.Queue(maxsize=...): put blocks while qsize() >= maxsize
QueueFull(q) == Len(q) >= QueueMaxSize

\* a get that hands out the head and leaves it in the queue
QueueRest_KeepHead(q) == q

\* queue.Queue.get removes the item it returns
QueueRest(q) == Tail(q)

\* a fallback that resets the counter whenever a ledger read fails
ReadFallback_Zero(phase, previous) == 0

\* the except branches of the ledger reads: initialize_nonces sets the counter
\* to 0, realign_all_nonces only logs and leaves the counter as it is
ReadFallback(phase, previous) == IF phase = "initialize" THEN 0 ELSE previous

\* a lock that never makes a caller wait
LockFree_Always(lock) == TRUE

\* threading.Lock: acquire blocks while a thread holds the lock
LockFree(lock) == lock = "free"

\* one lock for the counters of all accounts
NonceLockOf_Global(address) == 0

\* self.nonce_locks[address]: a defaultdict, one lock per address
NonceLockOf(address) == address

\* the positions of a thread that holds a dequeued work item without outcome
InFlight == {"account", "reserve", "contract", "build", "send"}

\* (variant) the loop never looks at the flag
LoopContinues_Always(flag) == TRUE

\* the condition of "while self.running"
LoopContinues(flag) == flag

\* (variant) a failed submission gives its sequence number back
NoncesAfterFailure_Unreserve(nonces, address) == [nonces EXCEPT ![address] = @ - 1]

\* the two failure exits of submit_spotdata_transaction: they count the
\* failure and return; self.account_nonces is not written
NoncesAfterFailure(nonces, address) == nonces

\* (variant) a failed submission counts as an attempt
AttemptsAfterFailure_Counted(count) == count + 1

\* the failure exits leave the attempt counter (submissions_count,
\* funding_attempts, total_claims_attempted) as it is
AttemptsAfterFailure(count) == count

\* (variant) the target check passes one submission early
TargetReached_OneShort(target, count) == target # 0 /\ count + 1 >= target

\* if num_transactions and self.submissions_count >= num_transactions: break
TargetReached(target, count) == target # 0 /\ count >= target

\* (variant) a failure is counted twice
CountFailure_Twice(failed) == failed + 2

\* self.failed_submissions += 1
CountFailure(failed) == failed + 1

\* the locals of the call a thread is in (NoValue: not assigned)
EmptyFrame ==
    [item |-> NoValue, account |-> NoValue, nonce |-> NoValue, contract |-> NoValue,
     w3_read |-> NoValue, signed_tx |-> <<>>, retry_attempt |-> 0,
     success |-> "none", realign_index |-> 0, blockchain_nonce |-> NoValue,
     op |-> "none", w3 |-> NoValue, local_nonce |-> NoValue]

NoReads == [a \in Accounts |-> "none"]
NoSnapshot == [a \in Accounts |-> NoValue]

EmptyHist == [reserves |-> 0, signs |-> 0, attempts |-> <<>>, empty_poll |-> FALSE]

\* the window of the latest selections, at most num_nodes long
Window(sel, node) ==
    LET s == Append(sel, node)
    IN IF Len(s) > num_nodes THEN SubSeq(s, 2, Len(s)) ELSE s

(* --------------------------- initial state ---------------------------- *)
InitCommon ==
    /\ init_index = 0
    /\ account_nonces = [a \in Accounts |-> 0]
    /\ current_account_index = 0
    /\ current_sync_node_index = 0
    /\ transaction_queue = <<>>
    /\ running = FALSE
    /\ submissions_count = 0
    /\ successful_submissions = 0
    /\ failed_submissions = 0
    /\ last_nonce_check = 0
    /\ nonce_realignments = 0
    /\ frame = [t \in Threads |-> EmptyFrame]
    /\ chain = [a \in Accounts |-> IF a % 2 = 1 THEN MaxSeed ELSE 0]
    /\ accepted = [a \in Accounts |-> {}]
    /\ enqueued = 0
    /\ hist = [t \in Threads |-> EmptyHist]
    /\ reserved = [a \in Accounts |-> <<>>]
    /\ epoch = [a \in Accounts |-> 0]
    /\ reconciled = [a \in Accounts |-> NoValue]
    /\ lastSel = <<>>
    /\ read_log = NoReads
    /\ before = NoSnapshot
    /\ sync_node_lock = "free"
    /\ nonce_locks = [a \in Accounts |-> "free"]
    /\ calls = 0

\* ExordeAccountFunder.__init__ (NoValue for None)
FunderIdle ==
    /\ main_initial = 0
    /\ main_nonce = NoValue
    /\ funding_results = <<>>
    /\ funder_pc = "idle"

\* SequentialHighSpeedFunder.__init__
QuickIdle ==
    /\ num_funders = 0
    /\ num_targets = 0
    /\ funding_nonces = <<>>
    /\ funding_schedule = <<>>
    /\ funding_attempts = 0
    /\ successful_fundings = 0
    /\ failed_fundings = 0
    /\ quick_pc = [phase |-> "idle", funder |-> 0, pos |-> 0]
    /\ fund_log = <<>>

\* SimpleClaimMasterScript.__init__
ClaimIdle ==
    /\ total_claims_attempted = 0
    /\ total_claims_successful = 0
    /\ total_claims_failed = 0
    /\ claim_index = NoValue

\* ExordePoolMonitor.__init__
MonitorIdle ==
    /\ nonce_history = <<>>
    /\ increases_data = <<>>
    /\ monitor_cycles = 0
    /\ monitor_chain = <<>>
    /\ monitor_failures = 0

ScriptsIdle == FunderIdle /\ QuickIdle /\ ClaimIdle /\ MonitorIdle

\* no batch in progress, no stop() made
ProducerIdle ==
    /\ transactions_list = <<>>
    /\ early_stop = FALSE

\* the sender engine is not part of the script that runs
EngineOff ==
    /\ InitCommon
    /\ num_nodes = 0
    /\ startup = "off"
    /\ malformed = {}
    /\ consumers = {}
    /\ num_transactions = 0
    /\ pc = [t \in Threads |-> "idle"]

\* nothing but the engine of transactioneer_with_queue.py is in use
OutsideIdle ==
    /\ program = "transactioneer_with_queue"
    /\ ProducerIdle
    /\ ScriptsIdle

\* the program as shipped, main() with one consumer loop, at the point where
\* run() has resolved the sync nodes and loaded well-formed account records
Init ==
    /\ InitCommon
    /\ OutsideIdle
    /\ num_nodes \in 1 .. MaxNodes
    /\ startup = "nonces"
    /\ malformed = {}
    /\ consumers = {"t1"}
    /\ num_transactions \in {0, MaxTarget}
    /\ pc = [t \in Threads |-> "idle"]

(* ------------------------- endpoint selection ------------------------- *)
\* get_next_sync_node, under sync_node_lock: returns the node at the cursor
\* and advances the cursor
get_next_sync_node(node) ==
    /\ node = current_sync_node_index
    /\ current_sync_node_index' = RoundRobinNext(current_sync_node_index, num_nodes)
    /\ lastSel' = Window(lastSel, node)

(* --------------------------- initialisation --------------------------- *)
\* initialize_nonces, one account per step: a read through the next sync
\* node; a failed read leaves the counter at 0
InitializeNonce ==
    /\ startup = "nonces"
    /\ init_index < NumAccounts
    /\ \E node \in 0 .. (num_nodes - 1), ok \in BOOLEAN :
         /\ get_next_sync_node(node)
         /\ account_nonces' =
              [account_nonces EXCEPT ![init_index] =
                   IF ok THEN chain[init_index] ELSE ReadFallback("initialize", @)]
         /\ read_log' = [read_log EXCEPT ![init_index] = IF ok THEN "ok" ELSE "failed"]
    /\ init_index' = init_index + 1
    /\ UNCHANGED <<outside, config, pool, before, current_account_index, transaction_queue, running, counters,
                   last_nonce_check, nonce_realignments, pc, frame, ledger, enqueued,
                   hist, reserved, epoch, reconciled>>

Initialized == startup = "nonces" /\ init_index = NumAccounts

(* ------------------------------ producers ----------------------------- *)
\* add_transaction: transaction_queue.put(transaction_params); put blocks
\* while the queue holds maxsize items
add_transaction ==
    /\ enqueued < MaxItems
    /\ ~QueueFull(transaction_queue)
    /\ transaction_queue' = Append(transaction_queue, enqueued + 1)
    /\ enqueued' = enqueued + 1
    /\ UNCHANGED <<outside, config, pool, passlog, init_index, account_nonces, current_account_index,
                   current_sync_node_index, running, counters, last_nonce_check,
                   nonce_realignments, pc, frame, ledger, hist, reserved, epoch, reconciled,
                   lastSel>>

\* (variant) the batch loop taking the last item of the list first
ForNext_Last(list) == list[Len(list)]

\* for tx_params in transactions_list: the item the iteration is at
ForNext(list) == Head(list)

\* add_transactions_batch is called with a list of n work items; the items
\* are numbered in list order after those enqueued or listed before
add_transactions_batch(n) ==
    /\ transactions_list = <<>>
    /\ enqueued + n <= MaxItems
    /\ transactions_list' = [i \in 1 .. n |-> enqueued + i]
    /\ UNCHANGED <<program, early_stop, scripts, config, pool, passlog, init_index,
                   account_nonces, current_account_index, current_sync_node_index,
                   transaction_queue, running, counters, last_nonce_check,
                   nonce_realignments, pc, frame, ledger, enqueued, hist, reserved,
                   epoch, reconciled, lastSel>>

\* one iteration of the batch loop: self.transaction_queue.put(tx_params),
\* which blocks while the queue is full
BatchPut ==
    /\ transactions_list # <<>>
    /\ ~QueueFull(transaction_queue)
    /\ transaction_queue' = Append(transaction_queue, ForNext(transactions_list))
    /\ transactions_list' = Tail(transactions_list)
    /\ enqueued' = enqueued + 1
    /\ UNCHANGED <<program, early_stop, scripts, config, pool, passlog, init_index,
                   account_nonces, current_account_index, current_sync_node_index,
                   running, counters, last_nonce_check, nonce_realignments, pc,
                   frame, ledger, hist, reserved, epoch, reconciled, lastSel>>

\* stop: self.running = False
stop ==
    /\ running' = FALSE
    /\ UNCHANGED <<outside, config, pool, passlog, init_index, account_nonces, current_account_index,
                   current_sync_node_index, transaction_queue, counters,
                   last_nonce_check, nonce_realignments, pc, frame, ledger, enqueued,
                   hist, reserved, epoch, reconciled, lastSel>>

\* stop() called on a sender whose loop has not been entered yet
stop_before_loop ==
    /\ \A t \in consumers : pc[t] = "idle"
    /\ running' = FALSE
    /\ early_stop' = TRUE
    /\ UNCHANGED <<program, transactions_list, scripts, config, pool, passlog, init_index,
                   account_nonces, current_account_index,
                   current_sync_node_index, transaction_queue, counters,
                   last_nonce_check, nonce_realignments, pc, frame, ledger, enqueued,
                   hist, reserved, epoch, reconciled, lastSel>>

(* --------------------------- the consumer loop ------------------------ *)
\* (variant) the loop entered without setting the flag
StartLoop_KeepsFlag(t) ==
    /\ t \in consumers
    /\ Initialized
    /\ pc[t] = "idle"
    /\ pc' = [pc EXCEPT ![t] = "top"]
    /\ read_log' = NoReads
    /\ UNCHANGED <<outside, config, pool, before, init_index, account_nonces, current_account_index,
                   current_sync_node_index, transaction_queue, running, counters,
                   last_nonce_check, nonce_realignments, frame, ledger, enqueued,
                   hist, reserved, epoch, reconciled, lastSel>>

\* run_high_speed_loop entry: self.running = True
StartLoop(t) ==
    /\ t \in consumers
    /\ Initialized
    /\ pc[t] = "idle"
    /\ running' = TRUE
    /\ pc' = [pc EXCEPT ![t] = "top"]
    /\ read_log' = NoReads
    /\ UNCHANGED <<outside, config, pool, before, init_index, account_nonces, current_account_index,
                   current_sync_node_index, transaction_queue, counters,
                   last_nonce_check, nonce_realignments, frame, ledger, enqueued,
                   hist, reserved, epoch, reconciled, lastSel>>

\* the head of "while self.running": the target check, then the realignment
\* trigger, then on to the dequeue
LoopTop(t) ==
    /\ pc[t] = "top"
    /\ pc' = [pc EXCEPT ![t] =
                IF ~LoopContinues(running) THEN "exited"
                ELSE IF TargetReached(num_transactions, submissions_count)
                     THEN "exited"
                ELSE IF RealignDue(submissions_count, last_nonce_check)
                     THEN "realign_read"
                ELSE "dequeue"]
    /\ IF pc'[t] = "realign_read"
       THEN before' = account_nonces /\ read_log' = NoReads
       ELSE UNCHANGED passlog
    /\ hist' = [hist EXCEPT ![t] = EmptyHist]
    /\ UNCHANGED <<outside, config, pool, init_index, account_nonces, current_account_index,
                   current_sync_node_index, transaction_queue, running, counters,
                   last_nonce_check, nonce_realignments, frame, ledger, enqueued,
                   reserved, epoch, reconciled, lastSel>>

\* realign_all_nonces, the read of one account: w3 = get_next_sync_node();
\* blockchain_nonce = w3.eth.get_transaction_count(address); a failed read
\* is logged and the account skipped
RealignRead(t) ==
    /\ pc[t] = "realign_read"
    /\ frame[t].realign_index < NumAccounts
    /\ \E node \in 0 .. (num_nodes - 1), ok \in BOOLEAN :
         /\ get_next_sync_node(node)
         /\ IF ok
            THEN /\ frame' = [frame EXCEPT ![t].blockchain_nonce =
                                               chain[frame[t].realign_index]]
                 /\ pc' = [pc EXCEPT ![t] = "realign_write"]
                 /\ UNCHANGED <<account_nonces, read_log>>
            ELSE /\ frame' = [frame EXCEPT ![t].realign_index = @ + 1]
                 /\ pc' = pc
                 /\ account_nonces' =
                      [account_nonces EXCEPT ![frame[t].realign_index] =
                           ReadFallback("realign", @)]
                 /\ read_log' = [read_log EXCEPT ![frame[t].realign_index] = "failed"]
    /\ UNCHANGED <<outside, config, pool, before, init_index, current_account_index,
                   transaction_queue, running, counters, last_nonce_check,
                   nonce_realignments, ledger, enqueued, hist, reserved, epoch, reconciled>>

\* realign_all_nonces, under nonce_locks[address]: compare and overwrite
RealignWrite(t) ==
    /\ pc[t] = "realign_write"
    /\ LET a == frame[t].realign_index
           local_nonce == account_nonces[a]
           \* the log line of a changed counter reads account['index'] before
           \* the write: on a record without it the KeyError skips the write
           v == IF a \in malformed THEN local_nonce
                ELSE RealignValue(local_nonce, frame[t].blockchain_nonce)
       IN /\ account_nonces' = [account_nonces EXCEPT ![a] = v]
          /\ epoch' = [epoch EXCEPT ![a] = IF v # local_nonce THEN @ + 1 ELSE @]
          /\ reconciled' = [reconciled EXCEPT ![a] = frame[t].blockchain_nonce]
          /\ read_log' = [read_log EXCEPT ![a] = "ok"]
    /\ frame' = [frame EXCEPT ![t].realign_index = @ + 1,
                              ![t].blockchain_nonce = NoValue]
    /\ pc' = [pc EXCEPT ![t] = "realign_read"]
    /\ UNCHANGED <<outside, config, pool, before, init_index, current_account_index, current_sync_node_index,
                   transaction_queue, running, counters, last_nonce_check,
                   nonce_realignments, ledger, enqueued, hist, reserved, lastSel>>

\* the end of realign_all_nonces and the loop's
\* self.last_nonce_check = self.submissions_count
RealignDone(t) ==
    /\ pc[t] = "realign_read"
    /\ frame[t].realign_index = NumAccounts
    /\ nonce_realignments' = nonce_realignments + 1
    /\ last_nonce_check' = submissions_count
    /\ frame' = [frame EXCEPT ![t].realign_index = 0]
    /\ pc' = [pc EXCEPT ![t] = "dequeue"]
    /\ read_log' = NoReads
    /\ before' = NoSnapshot
    /\ UNCHANGED <<outside, config, pool, init_index, account_nonces, current_account_index,
                   current_sync_node_index, transaction_queue, running, counters,
                   ledger, enqueued, hist, reserved, epoch, reconciled, lastSel>>

\* transaction_queue.get(timeout=...) on a queue that holds an item
Dequeue(t) ==
    /\ pc[t] = "dequeue"
    /\ transaction_queue # <<>>
    /\ frame' = [frame EXCEPT ![t].item = Head(transaction_queue)]
    /\ transaction_queue' = QueueRest(transaction_queue)
    /\ pc' = [pc EXCEPT ![t] = "account"]
    /\ UNCHANGED <<outside, config, pool, passlog, init_index, account_nonces, current_account_index,
                   current_sync_node_index, running, counters, last_nonce_check,
                   nonce_realignments, ledger, enqueued, hist, reserved, epoch, reconciled,
                   lastSel>>

\* (variant) the empty poll takes an account from the rotation all the same
DequeueEmpty_SelectsAccount(t) ==
    /\ pc[t] = "dequeue"
    /\ transaction_queue = <<>>
    /\ pc' = [pc EXCEPT ![t] = "top"]
    /\ hist' = [hist EXCEPT ![t].empty_poll = TRUE]
    /\ current_account_index' = RoundRobinNext(current_account_index, NumAccounts)
    /\ UNCHANGED <<outside, config, pool, passlog, init_index, account_nonces,
                   current_sync_node_index, transaction_queue, running, counters,
                   last_nonce_check, nonce_realignments, frame, ledger, enqueued,
                   reserved, epoch, reconciled, lastSel>>

\* transaction_queue.get raises queue.Empty after the timeout: continue
DequeueEmpty(t) ==
    /\ pc[t] = "dequeue"
    /\ transaction_queue = <<>>
    /\ pc' = [pc EXCEPT ![t] = "top"]
    /\ hist' = [hist EXCEPT ![t].empty_poll = TRUE]
    /\ UNCHANGED <<outside, config, pool, passlog, init_index, account_nonces, current_account_index,
                   current_sync_node_index, transaction_queue, running, counters,
                   last_nonce_check, nonce_realignments, frame, ledger, enqueued,
                   reserved, epoch, reconciled, lastSel>>

\* get_next_account, under account_lock
get_next_account(t) ==
    /\ pc[t] = "account"
    /\ frame' = [frame EXCEPT ![t].account = current_account_index]
    /\ current_account_index' = RoundRobinNext(current_account_index, NumAccounts)
    /\ pc' = [pc EXCEPT ![t] = "reserve"]
    /\ UNCHANGED <<outside, config, pool, passlog, init_index, account_nonces, current_sync_node_index,
                   transaction_queue, running, counters, last_nonce_check,
                   nonce_realignments, ledger, enqueued, hist, reserved, epoch, reconciled,
                   lastSel>>

(* -------------------- submit_spotdata_transaction --------------------- *)
\* (variant) a realignment pass started after the reservation, whenever the
\* count is on a positive multiple of K
get_next_nonce_ThenRealign(t) ==
    /\ pc[t] = "reserve"
    /\ frame[t].account \notin malformed
    /\ LET a == frame[t].account
           current_nonce == account_nonces[a]
       IN /\ account_nonces' = [account_nonces EXCEPT ![a] = ReserveUpdate(current_nonce)]
          /\ frame' = [frame EXCEPT ![t].nonce = current_nonce]
          /\ reserved' = [reserved EXCEPT ![a] =
                            Append(@, [nonce |-> current_nonce, epoch |-> epoch[a],
                                       after |-> reconciled[a]])]
          /\ reconciled' = [reconciled EXCEPT ![a] = NoValue]
    /\ hist' = [hist EXCEPT ![t].reserves = @ + 1]
    /\ pc' = [pc EXCEPT ![t] =
                IF RealignDue_NoGuard(submissions_count, last_nonce_check)
                THEN "realign_read" ELSE "contract"]
    /\ UNCHANGED <<outside, config, pool, passlog, init_index, current_account_index, current_sync_node_index,
                   transaction_queue, running, counters, last_nonce_check,
                   nonce_realignments, ledger, enqueued, epoch, lastSel>>

\* nonce = self.get_next_nonce(address), under nonce_locks[address]
get_next_nonce(t) ==
    /\ pc[t] = "reserve"
    /\ frame[t].account \notin malformed
    /\ LET a == frame[t].account
           current_nonce == account_nonces[a]
       IN /\ account_nonces' = [account_nonces EXCEPT ![a] = ReserveUpdate(current_nonce)]
          /\ frame' = [frame EXCEPT ![t].nonce = current_nonce]
          /\ reserved' = [reserved EXCEPT ![a] =
                            Append(@, [nonce |-> current_nonce, epoch |-> epoch[a],
                                       after |-> reconciled[a]])]
          /\ reconciled' = [reconciled EXCEPT ![a] = NoValue]
    /\ hist' = [hist EXCEPT ![t].reserves = @ + 1]
    /\ pc' = [pc EXCEPT ![t] = "contract"]
    /\ UNCHANGED <<outside, config, pool, passlog, init_index, current_account_index, current_sync_node_index,
                   transaction_queue, running, counters, last_nonce_check,
                   nonce_realignments, ledger, enqueued, epoch, lastSel>>

\* contract = self.get_next_contract(): the contract bound to the node at the
\* cursor, which is read under sync_node_lock and not advanced
get_next_contract(t) ==
    /\ pc[t] = "contract"
    /\ num_nodes > 0
    /\ frame' = [frame EXCEPT ![t].contract = current_sync_node_index]
    /\ pc' = [pc EXCEPT ![t] = "build"]
    /\ UNCHANGED <<outside, config, pool, passlog, init_index, account_nonces, current_account_index,
                   current_sync_node_index, transaction_queue, running, counters,
                   last_nonce_check, nonce_realignments, ledger, enqueued, hist,
                   reserved, epoch, reconciled, lastSel>>

\* w3_read = self.get_next_sync_node(); build_transaction; sign_transaction.
\* Building or signing raises on a malformed payload or key: the outer except
\* counts a failure and returns (False, None)
BuildAndSign(t) ==
    /\ pc[t] = "build"
    /\ \E node \in 0 .. (num_nodes - 1), ok \in BOOLEAN :
         /\ get_next_sync_node(node)
         /\ IF ok
            THEN /\ frame' = [frame EXCEPT
                       ![t].w3_read = node,
                       ![t].signed_tx =
                           SignTransaction(frame[t].account, frame[t].nonce, frame[t].item),
                       ![t].retry_attempt = 0]
                 /\ hist' = [hist EXCEPT ![t].signs = @ + 1]
                 /\ pc' = [pc EXCEPT ![t] = "send"]
                 /\ UNCHANGED <<failed_submissions, account_nonces, submissions_count>>
            ELSE /\ frame' = [frame EXCEPT ![t].w3_read = node, ![t].success = "FAILED"]
                 /\ failed_submissions' = CountFailure(failed_submissions)
                 /\ submissions_count' = AttemptsAfterFailure(submissions_count)
                 /\ account_nonces' = NoncesAfterFailure(account_nonces, frame[t].account)
                 /\ pc' = [pc EXCEPT ![t] = "returned"]
                 /\ UNCHANGED hist
    /\ UNCHANGED <<outside, config, pool, passlog, init_index, current_account_index,
                   transaction_queue, running,
                   successful_submissions, last_nonce_check, nonce_realignments,
                   ledger, enqueued, reserved, epoch, reconciled>>

\* what a node may answer to send_raw_transaction: it accepts a transaction
\* whose nonce the ledger has not mined yet, or reports a nonce collision, or
\* fails otherwise
Answers(a, nonce) ==
    (IF nonce >= chain[a] THEN {"ok"} ELSE {}) \cup {"conflict", "error"}

\* one pass of "for retry_attempt in range(max_retries)":
\* w3_write = self.get_next_sync_node(); send_raw_transaction(rawTransaction)
Send(t) ==
    /\ pc[t] = "send"
    /\ LET a == frame[t].account
           raw == RawTransaction(frame[t].signed_tx)
       IN \E node \in 0 .. (num_nodes - 1), result \in Answers(a, raw[2]) :
            /\ get_next_sync_node(node)
            /\ hist' = [hist EXCEPT ![t].attempts =
                          Append(@, [node |-> node, raw |-> raw, result |-> result])]
            /\ IF result = "ok"
               THEN /\ accepted' = [accepted EXCEPT ![a] = @ \cup {raw[2]}]
                    /\ submissions_count' = submissions_count + 1
                    /\ successful_submissions' = successful_submissions + 1
                    /\ frame' = [frame EXCEPT ![t].success = "SUCCEEDED"]
                    /\ pc' = [pc EXCEPT ![t] = "returned"]
                    /\ UNCHANGED <<failed_submissions, account_nonces>>
               ELSE IF IsNonceCollision(result) /\ ShouldRetry(frame[t].retry_attempt)
               THEN /\ frame' = [frame EXCEPT ![t].retry_attempt = @ + 1]
                    /\ pc' = pc
                    /\ UNCHANGED <<accepted, counters, account_nonces>>
               ELSE /\ failed_submissions' = CountFailure(failed_submissions)
                    /\ submissions_count' = AttemptsAfterFailure(submissions_count)
                    /\ account_nonces' = NoncesAfterFailure(account_nonces, a)
                    /\ frame' = [frame EXCEPT ![t].success = "FAILED"]
                    /\ pc' = [pc EXCEPT ![t] = "returned"]
                    /\ UNCHANGED <<accepted, successful_submissions>>
    /\ UNCHANGED <<outside, config, pool, passlog, init_index, current_account_index,
                   transaction_queue, running, last_nonce_check, nonce_realignments,
                   chain, enqueued, reserved, epoch, reconciled>>

\* back in the loop: transaction_queue.task_done(), the progress line, the
\* pacing delay; the locals of the cycle go out of scope
FinishCycle(t) ==
    /\ pc[t] = "returned"
    /\ frame' = [frame EXCEPT ![t] = EmptyFrame]
    /\ hist' = [hist EXCEPT ![t] = EmptyHist]
    /\ pc' = [pc EXCEPT ![t] = "top"]
    /\ UNCHANGED <<outside, config, pool, passlog, init_index, account_nonces, current_account_index,
                   current_sync_node_index, transaction_queue, running, counters,
                   last_nonce_check, nonce_realignments, ledger, enqueued, reserved,
                   epoch, reconciled, lastSel>>

(* ------------------------------ the ledger ---------------------------- *)
\* the ledger mines the accepted transaction that carries the account's next
\* nonce: eth.get_transaction_count(address) grows by one
Mine(a) ==
    /\ chain[a] \in accepted[a]
    /\ chain' = [chain EXCEPT ![a] = @ + 1]
    /\ UNCHANGED <<outside, config, pool, passlog, init_index, account_nonces, current_account_index,
                   current_sync_node_index, transaction_queue, running, counters,
                   last_nonce_check, nonce_realignments, pc, frame, accepted, enqueued,
                   hist, reserved, epoch, reconciled, lastSel>>

(* ---------------- the thread-safe methods, lock by lock ----------------- *)
(* The engine guards its cursors and counters with locks so that several   *)
(* threads may call get_next_sync_node, get_next_nonce and                 *)
(* realign_all_nonces at once.  Here a section under a lock is two steps:  *)
(* the acquisition with the section's first read, and the section's write  *)
(* with the release; the other threads run in between.                     *)
PoolOps == {"get_next_sync_node", "get_next_nonce", "realign_all_nonces"}

\* a thread calls one of the methods
PoolCall(t) ==
    /\ Initialized
    /\ pc[t] = "call"
    /\ calls < MaxCalls
    /\ calls' = calls + 1
    /\ read_log' = NoReads
    /\ \E op \in PoolOps, address \in Accounts :
         /\ frame' = [frame EXCEPT ![t] =
                         [EmptyFrame EXCEPT !.op = op,
                                            !.account = IF op = "get_next_nonce"
                                                        THEN address ELSE NoValue]]
         /\ pc' = [pc EXCEPT ![t] = IF op = "get_next_nonce" THEN "nn_enter" ELSE "sn_enter"]
    /\ UNCHANGED <<outside, config, before, init_index, account_nonces, current_account_index,
                   current_sync_node_index, transaction_queue, running, counters,
                   last_nonce_check, nonce_realignments, ledger, enqueued, hist,
                   reserved, epoch, reconciled, lastSel, sync_node_lock, nonce_locks>>

\* get_next_sync_node: with self.sync_node_lock:
\*     w3 = self.w3_instances[self.current_sync_node_index]
SyncNodeEnter(t) ==
    /\ pc[t] = "sn_enter"
    /\ LockFree(sync_node_lock)
    /\ sync_node_lock' = t
    /\ frame' = [frame EXCEPT ![t].w3 = current_sync_node_index]
    /\ pc' = [pc EXCEPT ![t] = "sn_locked"]
    /\ UNCHANGED <<outside, config, passlog, init_index, account_nonces, current_account_index,
                   current_sync_node_index, transaction_queue, running, counters,
                   last_nonce_check, nonce_realignments, ledger, enqueued, hist,
                   reserved, epoch, reconciled, lastSel, nonce_locks, calls>>

\* get_next_sync_node: the cursor's increment, return w3 and the lock's release;
\* realign_all_nonces goes on with the ledger read through w3
SyncNodeLeave(t) ==
    /\ pc[t] = "sn_locked"
    /\ current_sync_node_index' = RoundRobinNext(current_sync_node_index, num_nodes)
    /\ lastSel' = Window(lastSel, frame[t].w3)
    /\ sync_node_lock' = "free"
    /\ IF frame[t].op = "realign_all_nonces"
       THEN /\ pc' = [pc EXCEPT ![t] = "ra_read"]
            /\ frame' = frame
       ELSE /\ pc' = [pc EXCEPT ![t] = "call"]
            /\ frame' = [frame EXCEPT ![t] = EmptyFrame]
    /\ UNCHANGED <<outside, config, passlog, init_index, account_nonces, current_account_index,
                   transaction_queue, running, counters, last_nonce_check,
                   nonce_realignments, ledger, enqueued, hist, reserved, epoch,
                   reconciled, nonce_locks, calls>>

\* realign_all_nonces, the end of "for account in self.accounts": the next
\* account's node selection, or nonce_realignments += 1 and the return
RealignAdvance(t) ==
    LET last == frame[t].realign_index + 1 = NumAccounts
    IN /\ frame' = [frame EXCEPT ![t] =
                       IF last THEN EmptyFrame
                       ELSE [@ EXCEPT !.realign_index = @ + 1,
                                      !.blockchain_nonce = NoValue,
                                      !.local_nonce = NoValue,
                                      !.w3 = NoValue]]
       /\ pc' = [pc EXCEPT ![t] = IF last THEN "call" ELSE "sn_enter"]
       /\ nonce_realignments' = IF last THEN nonce_realignments + 1 ELSE nonce_realignments

\* a get_next_nonce that takes no lock
ReserveEnter_NoLock(t) ==
    /\ pc[t] = "nn_enter"
    /\ frame' = [frame EXCEPT ![t].nonce = account_nonces[frame[t].account]]
    /\ pc' = [pc EXCEPT ![t] = "nn_locked"]
    /\ UNCHANGED <<outside, config, passlog, init_index, account_nonces, current_account_index,
                   current_sync_node_index, transaction_queue, running, counters,
                   last_nonce_check, nonce_realignments, ledger, enqueued, hist,
                   reserved, epoch, reconciled, lastSel, sync_node_lock, nonce_locks,
                   calls>>

\* get_next_nonce: with self.nonce_locks[address]:
\*     current_nonce = self.account_nonces[address]
ReserveEnter(t) ==
    /\ pc[t] = "nn_enter"
    /\ LockFree(nonce_locks[NonceLockOf(frame[t].account)])
    /\ nonce_locks' = [nonce_locks EXCEPT ![NonceLockOf(frame[t].account)] = t]
    /\ frame' = [frame EXCEPT ![t].nonce = account_nonces[frame[t].account]]
    /\ pc' = [pc EXCEPT ![t] = "nn_locked"]
    /\ UNCHANGED <<outside, config, passlog, init_index, account_nonces, current_account_index,
                   current_sync_node_index, transaction_queue, running, counters,
                   last_nonce_check, nonce_realignments, ledger, enqueued, hist,
                   reserved, epoch, reconciled, lastSel, sync_node_lock, calls>>

\* get_next_nonce: self.account_nonces[address] += 1, return current_nonce and
\* the lock's release
ReserveLeave(t) ==
    /\ pc[t] = "nn_locked"
    /\ LET a == frame[t].account
       IN /\ account_nonces' = [account_nonces EXCEPT ![a] = ReserveUpdate(@)]
          /\ reserved' = [reserved EXCEPT ![a] =
                            Append(@, [nonce |-> frame[t].nonce, epoch |-> epoch[a],
                                       after |-> reconciled[a]])]
          /\ reconciled' = [reconciled EXCEPT ![a] = NoValue]
          /\ nonce_locks' = [nonce_locks EXCEPT ![NonceLockOf(a)] = "free"]
    /\ frame' = [frame EXCEPT ![t] = EmptyFrame]
    /\ pc' = [pc EXCEPT ![t] = "call"]
    /\ UNCHANGED <<outside, config, passlog, init_index, current_account_index,
                   current_sync_node_index, transaction_queue, running, counters,
                   last_nonce_check, nonce_realignments, ledger, enqueued, hist, epoch,
                   lastSel, sync_node_lock, calls>>

\* realign_all_nonces in a caller's thread: blockchain_nonce =
\* w3.eth.get_transaction_count(address), outside the lock; a failed read is
\* logged and the loop goes on with the next account
PoolLedgerRead(t) ==
    /\ pc[t] = "ra_read"
    /\ \E ok \in BOOLEAN :
         IF ok
         THEN /\ frame' = [frame EXCEPT ![t].blockchain_nonce =
                                            chain[frame[t].realign_index]]
              /\ pc' = [pc EXCEPT ![t] = "ra_enter"]
              /\ UNCHANGED <<account_nonces, nonce_realignments>>
         ELSE /\ account_nonces' =
                   [account_nonces EXCEPT ![frame[t].realign_index] =
                        ReadFallback("realign", @)]
              /\ RealignAdvance(t)
    /\ UNCHANGED <<outside, config, pool, passlog, init_index, current_account_index,
                   current_sync_node_index, transaction_queue, running, counters,
                   last_nonce_check, ledger, enqueued, hist, reserved, epoch,
                   reconciled, lastSel>>

\* realign_all_nonces: with self.nonce_locks[address]:
\*     local_nonce = self.account_nonces[address]
RealignEnter(t) ==
    /\ pc[t] = "ra_enter"
    /\ LockFree(nonce_locks[NonceLockOf(frame[t].realign_index)])
    /\ nonce_locks' = [nonce_locks EXCEPT ![NonceLockOf(frame[t].realign_index)] = t]
    /\ frame' = [frame EXCEPT ![t].local_nonce = account_nonces[frame[t].realign_index]]
    /\ pc' = [pc EXCEPT ![t] = "ra_locked"]
    /\ UNCHANGED <<outside, config, passlog, init_index, account_nonces, current_account_index,
                   current_sync_node_index, transaction_queue, running, counters,
                   last_nonce_check, nonce_realignments, ledger, enqueued, hist,
                   reserved, epoch, reconciled, lastSel, sync_node_lock, calls>>

\* realign_all_nonces: if blockchain_nonce != local_nonce the counter is
\* overwritten; then the lock's release and the next account
RealignLeave(t) ==
    /\ pc[t] = "ra_locked"
    /\ LET a == frame[t].realign_index
           v == RealignValue(frame[t].local_nonce, frame[t].blockchain_nonce)
       IN /\ account_nonces' = IF v # frame[t].local_nonce
                                THEN [account_nonces EXCEPT ![a] = v]
                                ELSE account_nonces
          /\ epoch' = [epoch EXCEPT ![a] = IF v # frame[t].local_nonce THEN @ + 1 ELSE @]
          /\ reconciled' = [reconciled EXCEPT ![a] = frame[t].blockchain_nonce]
          /\ nonce_locks' = [nonce_locks EXCEPT ![NonceLockOf(a)] = "free"]
    /\ RealignAdvance(t)
    /\ UNCHANGED <<outside, config, passlog, init_index, current_account_index,
                   current_sync_node_index, transaction_queue, running, counters,
                   last_nonce_check, ledger, enqueued, hist, reserved, lastSel,
                   sync_node_lock, calls>>

(* ------------------------- run(): the start-up ------------------------- *)
\* initialize_sync_nodes: the fetch or the parse of NetworkConfig.json raises
\* and run() re-raises; or the loop over the testnet entries ends, with as
\* many sync nodes as the testnet-A entry has _urlSkale keys (none when the
\* entry or the keys are missing: no exception is raised for an empty list)
ResolveSyncNodes ==
    /\ startup = "sync_nodes"
    /\ \/ /\ startup' = "aborted"
          /\ UNCHANGED num_nodes
       \/ /\ num_nodes' \in 0 .. MaxNodes
          /\ startup' = "contract"
    /\ UNCHANGED <<outside, consumers, num_transactions, malformed, pool, passlog, init_index,
                   account_nonces, current_account_index, current_sync_node_index,
                   transaction_queue, running, counters, last_nonce_check,
                   nonce_realignments, pc, frame, ledger, enqueued, hist, reserved,
                   epoch, reconciled, lastSel>>

\* initialize_dataspotting_contract: the ABI fetch or a contract binding
\* raises, or one contract per sync node is bound
InitializeContract ==
    /\ startup = "contract"
    /\ startup' \in {"aborted", "accounts"}
    /\ UNCHANGED <<outside, num_nodes, consumers, num_transactions, malformed, pool, passlog,
                   init_index, account_nonces, current_account_index,
                   current_sync_node_index, transaction_queue, running, counters,
                   last_nonce_check, nonce_realignments, pc, frame, ledger, enqueued,
                   hist, reserved, epoch, reconciled, lastSel>>

\* load_accounts: open or json.load raises, or the records are taken as they
\* are (no key is checked)
LoadAccounts ==
    /\ startup = "accounts"
    /\ startup' \in {"aborted", "nonces"}
    /\ UNCHANGED <<outside, num_nodes, consumers, num_transactions, malformed, pool, passlog,
                   init_index, account_nonces, current_account_index,
                   current_sync_node_index, transaction_queue, running, counters,
                   last_nonce_check, nonce_realignments, pc, frame, ledger, enqueued,
                   hist, reserved, epoch, reconciled, lastSel>>

\* initialize_nonces with an empty w3_instances: get_next_sync_node raises
\* IndexError before it moves the cursor, the except sets the counter to 0
InitializeNonceNoNode ==
    /\ startup = "nonces"
    /\ num_nodes = 0
    /\ init_index < NumAccounts
    /\ account_nonces' = [account_nonces EXCEPT ![init_index] = ReadFallback("initialize", @)]
    /\ read_log' = [read_log EXCEPT ![init_index] = "failed"]
    /\ init_index' = init_index + 1
    /\ UNCHANGED <<outside, config, pool, before, current_account_index, current_sync_node_index,
                   transaction_queue, running, counters, last_nonce_check,
                   nonce_realignments, pc, frame, ledger, enqueued, hist, reserved,
                   epoch, reconciled, lastSel>>

(* --------------------- the loop's exception paths ---------------------- *)
\* submit_spotdata_transaction on a record without 'index': KeyError at
\* "index = account['index']", before get_next_nonce; the outer except counts
\* the failure, then its log line formats {index:02d} with index unbound and
\* raises UnboundLocalError out of the call; the loop's "except Exception"
\* logs it and sets self.running = False
SubmitKeyError(t) ==
    /\ pc[t] = "reserve"
    /\ frame[t].account \in malformed
    /\ failed_submissions' = CountFailure(failed_submissions)
    /\ running' = FALSE
    /\ pc' = [pc EXCEPT ![t] = "caught"]
    /\ UNCHANGED <<outside, config, pool, passlog, init_index, account_nonces, current_account_index,
                   current_sync_node_index, transaction_queue, submissions_count,
                   successful_submissions, last_nonce_check, nonce_realignments, frame,
                   ledger, enqueued, hist, reserved, epoch, reconciled, lastSel>>

\* contract = self.get_next_contract() with no contract bound: IndexError,
\* caught by the outer except of submit_spotdata_transaction (index is bound)
ContractIndexError(t) ==
    /\ pc[t] = "contract"
    /\ num_nodes = 0
    /\ failed_submissions' = CountFailure(failed_submissions)
    /\ account_nonces' = NoncesAfterFailure(account_nonces, frame[t].account)
    /\ frame' = [frame EXCEPT ![t].success = "FAILED"]
    /\ pc' = [pc EXCEPT ![t] = "returned"]
    /\ UNCHANGED <<outside, config, pool, passlog, init_index, current_account_index,
                   current_sync_node_index, transaction_queue, running,
                   submissions_count, successful_submissions, last_nonce_check,
                   nonce_realignments, ledger, enqueued, hist, reserved, epoch,
                   reconciled, lastSel>>

\* Ctrl+C while the loop runs in the main thread: KeyboardInterrupt is raised
\* at the point the thread has reached, passes the "except Exception" clauses
\* of submit_spotdata_transaction, and is handled by the loop's
\* "except KeyboardInterrupt": self.running = False
KeyboardInterrupt(t) ==
    /\ t \in consumers
    /\ pc[t] \in {"top", "realign_read", "realign_write", "dequeue", "returned"} \cup InFlight
    /\ running' = FALSE
    /\ pc' = [pc EXCEPT ![t] = "interrupted"]
    /\ UNCHANGED <<outside, config, pool, passlog, init_index, account_nonces, current_account_index,
                   current_sync_node_index, transaction_queue, counters,
                   last_nonce_check, nonce_realignments, frame, ledger, enqueued, hist,
                   reserved, epoch, reconciled, lastSel>>

(* --------------------------- specifications --------------------------- *)
Next ==
    \/ InitializeNonce
    \/ add_transaction
    \/ stop
    \/ \E t \in Threads : StartLoop(t)
    \/ \E t \in Threads : LoopTop(t)
    \/ \E t \in Threads : RealignRead(t)
    \/ \E t \in Threads : RealignWrite(t)
    \/ \E t \in Threads : RealignDone(t)
    \/ \E t \in Threads : Dequeue(t)
    \/ \E t \in Threads : DequeueEmpty(t)
    \/ \E t \in Threads : get_next_account(t)
    \/ \E t \in Threads : get_next_nonce(t)
    \/ \E t \in Threads : get_next_contract(t)
    \/ \E t \in Threads : BuildAndSign(t)
    \/ \E t \in Threads : Send(t)
    \/ \E t \in Threads : FinishCycle(t)
    \/ \E a \in Accounts : Mine(a)

\* the engine as main() runs it: one consumer thread
Spec == Init /\ [][Next]_vars

\* the steps of a consumer thread inside run_high_speed_loop
LoopStep(t) ==
    \/ LoopTop(t)
    \/ RealignRead(t)
    \/ RealignWrite(t)
    \/ RealignDone(t)
    \/ Dequeue(t)
    \/ DequeueEmpty(t)
    \/ get_next_account(t)
    \/ get_next_nonce(t)
    \/ get_next_contract(t)
    \/ BuildAndSign(t)
    \/ Send(t)
    \/ FinishCycle(t)

\* main() passes no target: run(delay=INTER_TX_DELAY); one or two sync
\* nodes, so that a retry stays on the node or moves to the other one
InitFair == Init /\ num_transactions = 0 /\ num_nodes <= 2

\* the engine as main() runs it, with a consumer thread that keeps being
\* scheduled: every call the loop makes returns (the queue read has a
\* timeout, the HTTP requests time out, the sleeps end)
SpecFair == InitFair /\ [][Next]_vars /\ \A t \in Threads : WF_vars(LoopStep(t))

\* run() from its first line: the start-up may fail or resolve no sync node,
\* the accounts file may hold a record without 'index', and the user may
\* press Ctrl+C while the loop runs
MalformedChoices == {{}} \cup {{a} : a \in Accounts}

InitRun ==
    /\ InitCommon
    /\ OutsideIdle
    /\ num_nodes = 0
    /\ startup = "sync_nodes"
    /\ malformed \in MalformedChoices
    /\ consumers = {"t1"}
    /\ num_transactions = 0
    /\ pc = [t \in Threads |-> "idle"]

NextRun ==
    \/ ResolveSyncNodes
    \/ InitializeContract
    \/ LoadAccounts
    \/ InitializeNonceNoNode
    \/ InitializeNonce
    \/ add_transaction
    \/ stop
    \/ \E t \in Threads : StartLoop(t)
    \/ \E t \in Threads : LoopStep(t)
    \/ \E a \in Accounts : Mine(a)
    \/ \E t \in Threads : SubmitKeyError(t)
    \/ \E t \in Threads : ContractIndexError(t)
    \/ \E t \in Threads : KeyboardInterrupt(t)

SpecRun == InitRun /\ [][NextRun]_vars

\* the engine after construction, with no consumer loop and two threads that
\* call its thread-safe methods
InitPool ==
    /\ InitCommon
    /\ OutsideIdle
    /\ num_nodes \in 1 .. MaxNodes
    /\ startup = "nonces"
    /\ malformed = {}
    /\ consumers = {}
    /\ num_transactions = 0
    /\ pc = [t \in Threads |-> "call"]

NextPool ==
    \/ InitializeNonce
    \/ \E t \in Threads : PoolCall(t)
    \/ \E t \in Threads : SyncNodeEnter(t)
    \/ \E t \in Threads : SyncNodeLeave(t)
    \/ \E t \in Threads : ReserveEnter(t)
    \/ \E t \in Threads : ReserveLeave(t)
    \/ \E t \in Threads : PoolLedgerRead(t)
    \/ \E t \in Threads : RealignEnter(t)
    \/ \E t \in Threads : RealignLeave(t)

SpecPool == InitPool /\ [][NextPool]_vars

(* ============================ properties ============================== *)
\* the threads whose work item holds a reserved number and has no outcome yet
Submitting == {t \in Threads : pc[t] \in {"contract", "build", "send"}}

\* the thread's work item went through submit_spotdata_transaction and the
\* call has returned
Returned(t) == pc[t] = "returned"

RECURSIVE TotalReserved(_)
TotalReserved(S) ==
    IF S = {} THEN 0
    ELSE LET a == CHOOSE x \in S : TRUE
         IN Len(reserved[a]) + TotalReserved(S \ {a})

AllConflicts(attempts) ==
    \A k \in 1 .. Len(attempts) : attempts[k].result = "conflict"

(* ---- C1 ---- *)
\* C1 as stated: for every account the numbers handed out are strictly
\* increasing in reservation order (hence pairwise distinct), whatever
\* reservations and realignments happened.
C1_SequenceUnique ==
    \A a \in Accounts :
        \A i, j \in 1 .. Len(reserved[a]) :
            i < j => reserved[a][i].nonce < reserved[a][j].nonce

\* C1 amended: for every account, the numbers handed out with no realignment
\* rewriting the account's counter in between are consecutive: strictly
\* increasing in reservation order, pairwise distinct and gap-free.
C1_SequenceUniqueBetweenRealignments ==
    \A a \in Accounts :
        \A i, j \in 1 .. Len(reserved[a]) :
            (i < j /\ reserved[a][i].epoch = reserved[a][j].epoch)
                => reserved[a][j].nonce = reserved[a][i].nonce + (j - i)

\* two reservations of one account with a realignment pass between them that
\* left the account's counter as it was
C1_Witness ==
    \E a \in Accounts :
        /\ Len(reserved[a]) >= 2
        /\ reserved[a][1].epoch = reserved[a][2].epoch
        /\ reserved[a][2].after # NoValue

(* ---- C2 ---- *)
\* C2: one work item consumes exactly one sequence number.  A work item that
\* is past its reservation, whatever its attempts and its outcome, has called
\* get_next_nonce exactly once; the numbers handed out are as many as the work
\* items that hold one; and the reservation advanced the account's counter by
\* exactly one.
C2_OneReservationPerItem ==
    /\ \A t \in Threads :
          /\ pc[t] \in {"contract", "build", "send", "returned"} => hist[t].reserves = 1
          /\ pc[t] \notin {"contract", "build", "send", "returned"} => hist[t].reserves = 0
    /\ TotalReserved(Accounts) =
          successful_submissions + failed_submissions + Cardinality(Submitting)
    /\ \A a \in Accounts :
          (Len(reserved[a]) > 0 /\ reserved[a][Len(reserved[a])].epoch = epoch[a])
             => account_nonces[a] = reserved[a][Len(reserved[a])].nonce + 1

\* a work item that failed after a retry: several broadcast attempts, one number
C2_Witness ==
    \E t \in Threads :
        /\ Returned(t)
        /\ frame[t].success = "FAILED"
        /\ Len(hist[t].attempts) >= 2
        /\ hist[t].reserves = 1

(* ---- C3 ---- *)
\* C3: a work item whose every broadcast attempt met a nonce collision makes
\* exactly max_retries attempts, on pairwise distinct endpoints when
\* max_retries <= num_nodes, and ends FAILED; it is not given up earlier.
C3_ConflictRetryBound ==
    \A t \in Threads :
        LET attempts == hist[t].attempts
        IN /\ Len(attempts) <= max_retries
           /\ (Returned(t) /\ attempts # <<>> /\ AllConflicts(attempts)) =>
                 /\ Len(attempts) = max_retries
                 /\ frame[t].success = "FAILED"
                 /\ max_retries <= num_nodes =>
                       \A i, j \in 1 .. Len(attempts) :
                           i # j => attempts[i].node # attempts[j].node
           /\ (pc[t] = "send" /\ AllConflicts(attempts)) => Len(attempts) < max_retries

\* conflicts on every attempt, with at least max_retries endpoints in the pool
C3_Witness ==
    \E t \in Threads :
        /\ Returned(t)
        /\ Len(hist[t].attempts) = max_retries
        /\ AllConflicts(hist[t].attempts)
        /\ max_retries <= num_nodes

(* ---- C4 ---- *)
\* C4: a broadcast attempt that fails with an error other than a nonce
\* collision is the last attempt of its work item, which is FAILED at once.
C4_NonConflictErrorFailsAtOnce ==
    \A t \in Threads :
        \A k \in 1 .. Len(hist[t].attempts) :
            hist[t].attempts[k].result = "error" =>
                /\ k = Len(hist[t].attempts)
                /\ Returned(t)
                /\ frame[t].success = "FAILED"

\* a non-collision error on the first attempt, with two retries left
C4_Witness ==
    \E t \in Threads :
        /\ Returned(t)
        /\ Len(hist[t].attempts) = 1
        /\ hist[t].attempts[1].result = "error"
        /\ max_retries > 1

(* ---- C5 ---- *)
\* C5 as stated: the attempt that follows a nonce collision goes to an endpoint
\* other than the one that reported the collision, for every pool size.
C5_RetryOnDifferentEndpoint ==
    \A t \in Threads :
        \A k \in 2 .. Len(hist[t].attempts) :
            hist[t].attempts[k].node # hist[t].attempts[k - 1].node

(* ---- C6 ---- *)
\* C6: a work item is signed exactly once, before its first broadcast attempt,
\* and every attempt sends the bytes of that one signature, which carry the
\* number reserved for the item.
C6_SignedOnceSameBytes ==
    \A t \in Threads :
        /\ hist[t].signs <= 1
        /\ pc[t] = "send" => hist[t].signs = 1
        /\ \A k \in 1 .. Len(hist[t].attempts) :
              /\ hist[t].signs = 1
              /\ hist[t].attempts[k].raw = frame[t].signed_tx
              /\ hist[t].attempts[k].raw = hist[t].attempts[1].raw
              /\ hist[t].attempts[k].raw[1] = frame[t].account
              /\ hist[t].attempts[k].raw[2] = frame[t].nonce
              /\ hist[t].attempts[k].raw[3] = frame[t].item

\* three attempts of one work item whose number is not 0
C6_Witness ==
    \E t \in Threads :
        /\ Len(hist[t].attempts) = max_retries
        /\ hist[t].signs = 1
        /\ frame[t].nonce > 0

(* ---- C7 ---- *)
\* C7: after a realignment of an account with the ledger's value V, the next
\* reservation for the account returns V: until that reservation the counter
\* is V, and the number handed out by it is V, whether the counter was above
\* or below V before.
C7_ReconcileThenReserve ==
    \A a \in Accounts :
        /\ reconciled[a] # NoValue => account_nonces[a] = reconciled[a]
        /\ \A i \in 1 .. Len(reserved[a]) :
              reserved[a][i].after # NoValue => reserved[a][i].nonce = reserved[a][i].after

\* a realignment lowered the counter, and the next reservation handed out a
\* number that had been handed out before
C7_Witness ==
    \E a \in Accounts :
        \E i, j \in 1 .. Len(reserved[a]) :
            /\ i < j
            /\ reserved[a][j].after # NoValue
            /\ reserved[a][j].nonce <= reserved[a][i].nonce

(* ---- C8 ---- *)
\* C8 as stated: an account's counter is never below the highest number of a
\* transaction of the account that is in flight or that a node accepted, plus 1.
C8_CounterAboveAcceptedAndInFlight ==
    \A a \in Accounts :
        /\ \A n \in accepted[a] : account_nonces[a] >= n + 1
        /\ \A t \in Submitting :
              frame[t].account = a => account_nonces[a] >= frame[t].nonce + 1

(* ---- C9 ---- *)
\* C9: num_nodes consecutive get_next_sync_node calls return every endpoint
\* exactly once, in the pool's order from the cursor on, and leave the cursor
\* where it was before the first of them.
C9_RoundRobinFullCycle ==
    /\ current_sync_node_index \in 0 .. (num_nodes - 1)
    /\ Len(lastSel) = num_nodes =>
          /\ \A k \in 1 .. num_nodes : lastSel[k] = (lastSel[1] + (k - 1)) % num_nodes
          /\ {lastSel[k] : k \in 1 .. num_nodes} = 0 .. (num_nodes - 1)
          /\ \A i, j \in 1 .. num_nodes : i # j => lastSel[i] # lastSel[j]
          /\ current_sync_node_index = lastSel[1]

\* a full cycle over three or more endpoints that started in the middle of the pool
C9_Witness ==
    /\ num_nodes >= 3
    /\ Len(lastSel) = num_nodes
    /\ lastSel[1] # 0

(* ---- C10 ---- *)
\* the steps that select an endpoint for a read: the nonce queries of
\* initialize_nonces and realign_all_nonces, and the w3_read of a submission
ReadSelection ==
    \/ InitializeNonce
    \/ \E t \in Threads : RealignRead(t)
    \/ \E t \in Threads : BuildAndSign(t)

InSyncSection == {t \in Threads : pc[t] = "sn_locked"}

\* C11: endpoint selection is atomic under concurrent callers.  Every call
\* returns a member of the pool, the cursor stays in 0..N-1, at most one caller
\* is inside the section and the node it was handed is the one at the cursor,
\* each completed call leaves the cursor one position after the node it
\* returned, and the calls, in the order they complete, return consecutive
\* rotation slots: none skipped, none returned twice.
C11_EndpointSelectionAtomic ==
    /\ current_sync_node_index \in 0 .. (num_nodes - 1)
    /\ \A k \in 1 .. Len(lastSel) : lastSel[k] \in 0 .. (num_nodes - 1)
    /\ \A k \in 2 .. Len(lastSel) : lastSel[k] = (lastSel[k - 1] + 1) % num_nodes
    /\ Cardinality(InSyncSection) <= 1
    /\ \A t \in InSyncSection :
          /\ sync_node_lock = t
          /\ frame[t].w3 = current_sync_node_index
    /\ (InSyncSection = {} /\ lastSel # <<>>) =>
          current_sync_node_index = (lastSel[Len(lastSel)] + 1) % num_nodes

\* two callers at once on a pool of two endpoints or more: one is inside the
\* section, the other waits at the lock, and a selection was completed before
C11_Witness ==
    \E t, u \in Threads :
        /\ t # u
        /\ pc[t] = "sn_locked"
        /\ pc[u] = "sn_enter"
        /\ num_nodes >= 2
        /\ lastSel # <<>>

(* ---- C12 ---- *)
\* the threads inside the section of get_next_nonce on the account's counter
InReserve(a) == {t \in Threads : pc[t] = "nn_locked" /\ frame[t].account = a}

\* the threads inside the section of realign_all_nonces on the account's counter
InRealign(a) == {t \in Threads : pc[t] = "ra_locked" /\ frame[t].realign_index = a}

\* C12: reserve and reconcile of one account exclude each other.  At most one
\* thread is inside a section on the account's counter; the counter still has
\* the value the thread read when it entered (nobody wrote in between); and no
\* update is lost: after a reservation the counter is the number handed out
\* plus one, after a realignment it is the value the realignment installed.
C12_ReserveAndReconcileExclude ==
    \A a \in Accounts :
        /\ Cardinality(InReserve(a) \cup InRealign(a)) <= 1
        /\ \A t \in InReserve(a) : account_nonces[a] = frame[t].nonce
        /\ \A t \in InRealign(a) : account_nonces[a] = frame[t].local_nonce
        /\ reconciled[a] # NoValue => account_nonces[a] = reconciled[a]
        /\ (reconciled[a] = NoValue /\ reserved[a] # <<>>) =>
              account_nonces[a] = reserved[a][Len(reserved[a])].nonce + 1

\* a realignment that is about to rewrite an account's counter holds the
\* account's lock while a reservation for the same account waits
C12_Witness ==
    \E t, u \in Threads :
        /\ pc[t] = "ra_locked"
        /\ frame[t].blockchain_nonce # frame[t].local_nonce
        /\ pc[u] = "nn_enter"
        /\ frame[u].account = frame[t].realign_index

(* ---- C13 ---- *)
\* C13: the locks of the counters are per account.  A reservation for an
\* account can enter its section whenever no thread is inside a section on
\* that same account, whatever sections on other accounts are occupied.
C13_LocksArePerAccount ==
    \A t \in Threads :
        (/\ pc[t] = "nn_enter"
         /\ InReserve(frame[t].account) \cup InRealign(frame[t].account) = {})
            => ENABLED ReserveEnter(t)

\* a reservation for one account is inside its section while a realignment
\* holds the lock of another account
C13_Witness ==
    \E t, u \in Threads :
        /\ pc[t] = "ra_locked"
        /\ pc[u] = "nn_locked"
        /\ frame[u].account # frame[t].realign_index
        /\ nonce_locks[frame[t].realign_index] = t
        /\ nonce_locks[frame[u].account] = u

(* ---- C14 ---- *)
\* C14: the queue never holds more items than its capacity.  While it is full
\* add_transaction cannot complete, and the queue holds, in order, exactly the
\* latest items enqueued: a blocked enqueue adds nothing and nothing already
\* queued is dropped.
C14_QueueWithinCapacity ==
    /\ Len(transaction_queue) <= QueueMaxSize
    /\ QueueFull(transaction_queue) => ~ENABLED add_transaction
    /\ \A k \in 1 .. Len(transaction_queue) :
          transaction_queue[k] = enqueued - Len(transaction_queue) + k

\* the queue is full again after items were taken from it, and the producers
\* have a further item to enqueue
C14_Witness ==
    /\ Len(transaction_queue) = QueueMaxSize
    /\ enqueued > QueueMaxSize
    /\ enqueued < MaxItems

(* ---- C15 ---- *)
\* the threads that hold a dequeued work item with no outcome yet
InHand == {t \in Threads : pc[t] \in {"account", "reserve", "contract", "build", "send"}}

Stage(p, attempts) ==
    IF p \in {"reserve", "contract", "build"} THEN 1
    ELSE IF p = "send" THEN (IF attempts = <<>> THEN 2 ELSE 3)
    ELSE IF p = "returned" THEN 4
    ELSE 0

\* the stages a work item may move to in one step
StageSuccessors(stage) ==
    IF stage = 0 THEN {0, 1}
    ELSE IF stage = 1 THEN {1, 2, 4}
    ELSE IF stage = 2 THEN {2, 3, 4}
    ELSE IF stage = 3 THEN {3, 4}
    ELSE {4, 0}

\* C16: a submission moves only forward through PENDING, BUILT, SUBMITTING and
\* a terminal state.  Every step takes a work item to a stage that follows its
\* own; a broadcast attempt is made only by an item that is BUILT or
\* SUBMITTING, whose number is reserved and whose transaction is signed; no
\* attempt is made in a terminal state, which holds an outcome; and the
\* attempt that is number max_retries ends in a terminal state.
C16_ForwardOnly ==
    [][\A t \in Threads :
          LET stage == Stage(pc[t], hist[t].attempts)
              stage_next == Stage(pc'[t], hist'[t].attempts)
          IN /\ stage_next \in StageSuccessors(stage)
             /\ Len(hist'[t].attempts) > Len(hist[t].attempts) =>
                   /\ stage \in {2, 3}
                   /\ hist[t].reserves = 1
                   /\ hist[t].signs = 1
                   /\ frame[t].nonce # NoValue
                   /\ frame[t].signed_tx # <<>>
                   /\ Len(hist'[t].attempts) = Len(hist[t].attempts) + 1
             /\ Len(hist'[t].attempts) >= max_retries => stage_next = 4
             /\ stage_next = 4 => frame'[t].success \in {"SUCCEEDED", "FAILED"}
             /\ stage_next \in {1, 2, 3} => frame'[t].success = "none"]_vars

\* a work item that went through every stage and was accepted on its last
\* attempt
C16_Witness ==
    \E t \in Threads :
        /\ Returned(t)
        /\ frame[t].success = "SUCCEEDED"
        /\ Len(hist[t].attempts) = max_retries

(* ---- C17 ---- *)
\* C17 as stated: the attempted counter is the sum of the succeeded and the
\* failed counters, whatever submissions were made.
C17_AttemptedIsSucceededPlusFailed ==
    submissions_count = successful_submissions + failed_submissions

(* ---- C18 ---- *)
\* C18 as stated: when a work item is taken for the next submission, one
\* realignment pass has been performed for every positive multiple of
\* NONCE_REALIGNMENT_ITERATIONS that the number of completed submissions,
\* successful or failed, has reached.
C18_ReconcileEveryKCompleted ==
    \A t \in Threads :
        pc[t] = "account" =>
            nonce_realignments =
                (successful_submissions + failed_submissions)
                    \div NONCE_REALIGNMENT_ITERATIONS

(* ---- C19 ---- *)
\* the thread has gone through "for account in self.accounts" of
\* realign_all_nonces and the pass is about to return
PassComplete(t) == pc[t] = "realign_read" /\ frame[t].realign_index = NumAccounts

\* C19: a realignment pass covers every tracked account.  At the end of the
\* pass every account has had its ledger read, and the counter of every
\* account whose read succeeded is the transaction count that was read for it
\* (which the ledger has reached); so when all reads succeeded every counter
\* equals the value read.
C19_ReconcileCoversAllAccounts ==
    \A t \in Threads :
        PassComplete(t) =>
            \A a \in Accounts :
                /\ read_log[a] # "none"
                /\ read_log[a] = "ok" =>
                      /\ reconciled[a] # NoValue
                      /\ account_nonces[a] = reconciled[a]
                      /\ account_nonces[a] <= chain[a]

\* a pass with all reads successful that changed a counter
C19_Witness ==
    \E t \in Threads :
        /\ PassComplete(t)
        /\ \A a \in Accounts : read_log[a] = "ok"
        /\ \E a \in Accounts : account_nonces[a] # before[a]

(* ---- C20 ---- *)
\* initialize_nonces is running or has just ended: no loop was entered yet
Initializing == \A t \in Threads : pc[t] = "idle"

\* the threads inside a realignment pass
InPass == {t \in Threads : pc[t] \in {"realign_read", "realign_write"}}

\* C20: a failed ledger read does not abort the run.  In the initialisation
\* the account's counter is 0 after a failed read, in a realignment pass it is
\* what it was when the pass began; in both the accounts are processed in
\* order with none left out, and the next step of the run (the next account,
\* the entry of the loop, the end of the pass) can be taken.
C20_FailedReadKeepsGoing ==
    /\ Initializing =>
          /\ \A a \in Accounts :
                /\ (a < init_index) = (read_log[a] # "none")
                /\ read_log[a] = "failed" => account_nonces[a] = 0
                /\ read_log[a] = "ok" => account_nonces[a] = chain[a]
          /\ init_index < NumAccounts => ENABLED InitializeNonce
          /\ Initialized => \A t \in consumers : ENABLED StartLoop(t)
    /\ \A t \in InPass :
          /\ \A a \in Accounts :
                /\ (a < frame[t].realign_index) = (read_log[a] # "none")
                /\ read_log[a] = "failed" => account_nonces[a] = before[a]
          /\ pc[t] = "realign_read" => ENABLED (RealignRead(t) \/ RealignDone(t))

\* in a realignment pass the read of an account whose counter is not 0 failed
\* and the pass went on to rewrite the counter of a later account
C20_Witness ==
    \E t \in InPass :
        \E a, b \in Accounts :
            /\ a < b
            /\ read_log[a] = "failed"
            /\ before[a] > 0
            /\ read_log[b] = "ok"
            /\ account_nonces[b] # before[b]

(* ---- C23 ---- *)
\* C23: a dequeue on an empty queue does not block: the timeout step is
\* enabled.  That step selects no account, reserves no number, changes no
\* counter, cursor or queue, and puts the loop back at the head of the while,
\* where the stop flag and the realignment trigger are evaluated.
C23_EmptyDequeueEndsCycle ==
    /\ [](\A t \in consumers :
            /\ (pc[t] = "dequeue" /\ transaction_queue = <<>>) => ENABLED DequeueEmpty(t)
            /\ hist[t].empty_poll =>
                  /\ pc[t] = "top"
                  /\ frame[t] = EmptyFrame
                  /\ ENABLED LoopTop(t))
    /\ [][\A t \in Threads :
            (pc[t] = "dequeue" /\ transaction_queue = <<>> /\ pc'[t] # pc[t]) =>
                /\ pc'[t] = "top"
                /\ frame'[t] = frame[t]
                /\ frame[t].account = NoValue
                /\ frame[t].nonce = NoValue
                /\ UNCHANGED <<current_account_index, current_sync_node_index,
                               account_nonces, reserved, counters, last_nonce_check,
                               nonce_realignments, transaction_queue, enqueued,
                               running, ledger>>]_vars

\* an empty poll after the loop has already submitted an item
C23_Witness ==
    \E t \in consumers :
        /\ hist[t].empty_poll
        /\ pc[t] = "top"
        /\ transaction_queue = <<>>
        /\ successful_submissions + failed_submissions > 0

(* ---- C26 ---- *)
\* C26: when building or signing fails, the call returns FAILED in that very
\* step: no broadcast attempt has been or will be made for the work item, no
\* transaction was signed or accepted, the failed counter grows by exactly
\* one and the other two counters stay.
C26_BuildFailureFailsAtOnce ==
    /\ [](\A t \in consumers :
            (Returned(t) /\ hist[t].signs = 0) =>
                /\ frame[t].success = "FAILED"
                /\ hist[t].attempts = <<>>
                /\ frame[t].signed_tx = <<>>)
    /\ [][\A t \in Threads :
            (pc[t] = "build" /\ pc'[t] # "build" /\ hist'[t].signs = 0) =>
                /\ pc'[t] = "returned"
                /\ frame'[t].success = "FAILED"
                /\ hist'[t].attempts = <<>>
                /\ failed_submissions' = failed_submissions + 1
                /\ UNCHANGED <<submissions_count, successful_submissions, ledger>>]_vars

\* a work item that failed in build/sign after its number was reserved
C26_Witness ==
    \E t \in consumers :
        /\ Returned(t)
        /\ hist[t].signs = 0
        /\ hist[t].reserves = 1
        /\ frame[t].success = "FAILED"
        /\ failed_submissions >= 1

(* ---- C28 ---- *)
\* C28: in a returned call, an accepted broadcast attempt is the last attempt;
\* every attempt before it was a conflict; the outcome is SUCCEEDED; and the
\* number of attempts k is at most max_retries.  Conversely a call whose
\* attempts are k - 1 conflicts with k - 1 < max_retries has not returned
\* FAILED: it is still sending or it ended with the k-th attempt.
C28_AcceptedAttemptIsLast ==
    \A t \in consumers :
        LET attempts == hist[t].attempts
            k == Len(attempts)
        IN /\ \A i \in 1 .. k :
                 attempts[i].result = "ok" =>
                     /\ i = k
                     /\ k <= max_retries
                     /\ \A j \in 1 .. (i - 1) : attempts[j].result = "conflict"
                     /\ Returned(t)
                     /\ frame[t].success = "SUCCEEDED"
                     /\ frame[t].retry_attempt = k - 1
           /\ (Returned(t) /\ frame[t].success = "SUCCEEDED") =>
                 /\ k >= 1
                 /\ attempts[k].result = "ok"
           /\ (Returned(t) /\ frame[t].success = "FAILED" /\ AllConflicts(attempts)
                   /\ hist[t].signs = 1) => k = max_retries

\* two endpoints, conflict on the first, accepted by the other: SUCCEEDED
\* with 2 attempts
C28_Witness ==
    \E t \in consumers :
        /\ num_nodes = 2
        /\ Returned(t)
        /\ frame[t].success = "SUCCEEDED"
        /\ Len(hist[t].attempts) = 2
        /\ hist[t].attempts[1].result = "conflict"
        /\ hist[t].attempts[2].result = "ok"
        /\ hist[t].attempts[1].node # hist[t].attempts[2].node

(* ---- C29 ---- *)
\* C29: while a work item is in submit_spotdata_transaction and when the call
\* has returned, whatever the outcome, the account's counter is the reserved
\* number plus one; and the only steps that change an account's counter are
\* the initial read, a reserve (plus one) and the write of a reconciliation:
\* no failure exit and no end of cycle takes the number back.
C29_FailureKeepsReservation ==
    /\ [](\A t \in consumers :
            (t \in Submitting \/ Returned(t)) =>
                /\ hist[t].reserves = 1
                /\ account_nonces[frame[t].account] = frame[t].nonce + 1)
    /\ [][\A a \in Accounts :
            account_nonces'[a] # account_nonces[a] =>
                \/ ~Initialized
                \/ \E t \in Threads :
                      /\ pc[t] = "reserve" /\ pc'[t] = "contract"
                      /\ frame[t].account = a
                      /\ account_nonces'[a] = account_nonces[a] + 1
                \/ \E t \in Threads :
                      /\ pc[t] = "realign_write" /\ pc'[t] = "realign_read"
                      /\ frame[t].realign_index = a
                      /\ account_nonces'[a] = frame[t].blockchain_nonce]_vars

\* a call that returned FAILED after its conflicts were exhausted, the
\* account's counter still one past the reserved number
C29_Witness ==
    \E t \in consumers :
        /\ Returned(t)
        /\ frame[t].success = "FAILED"
        /\ Len(hist[t].attempts) = max_retries
        /\ account_nonces[frame[t].account] = frame[t].nonce + 1
        /\ frame[t].nonce > 0

(* ---- C27 ---- *)
\* C27: a get_next_nonce call returns the counter the account has at that
\* moment and leaves it one higher, the counters of the other accounts
\* untouched; so the numbers returned for an account between two
\* reconciliations are consecutive, and k calls on an account seeded at s,
\* with no reconciliation in between, return s, s + 1, ..., s + k - 1.
C27_ReserveReturnsAndIncrements ==
    /\ [](\A a \in Accounts :
            /\ \A i \in 2 .. Len(reserved[a]) :
                  reserved[a][i].epoch = reserved[a][i - 1].epoch =>
                      reserved[a][i].nonce = reserved[a][i - 1].nonce + 1
            /\ (epoch[a] = 0 /\ Len(reserved[a]) > 0) =>
                  /\ reserved[a][1].nonce \in {0, chain[a]}
                  /\ \A i \in 1 .. Len(reserved[a]) :
                        reserved[a][i].nonce = reserved[a][1].nonce + i - 1
                  /\ account_nonces[a] = reserved[a][1].nonce + Len(reserved[a]))
    /\ [][\A t \in Threads :
            (pc[t] = "nn_locked" /\ pc'[t] # pc[t]) =>
                LET a == frame[t].account
                IN /\ Len(reserved'[a]) = Len(reserved[a]) + 1
                   /\ reserved'[a][Len(reserved'[a])].nonce = account_nonces[a]
                   /\ account_nonces'[a] = account_nonces[a] + 1
                   /\ \A b \in Accounts \ {a} :
                         /\ account_nonces'[b] = account_nonces[b]
                         /\ reserved'[b] = reserved[b]]_vars

\* three calls on the account seeded at MaxSeed return MaxSeed, MaxSeed + 1,
\* MaxSeed + 2; the other account keeps its seed
C27_Witness ==
    /\ Len(reserved[1]) = 3
    /\ reserved[1][1].nonce = MaxSeed
    /\ reserved[1][2].nonce = MaxSeed + 1
    /\ reserved[1][3].nonce = MaxSeed + 2
    /\ account_nonces[1] = MaxSeed + 3
    /\ account_nonces[0] = 0
    /\ reserved[0] = <<>>

(* ---- C21 ---- *)
\* C21: once stop() has cleared the flag of a running loop, the flag stays
\* cleared; a submission in flight goes on, stage by stage, to its outcome and
\* the end of its cycle; at the head of the next cycle the loop leaves
\* (it does not go on to the realignment or to the queue); from the moment a
\* work item is in hand no further item is taken from the queue; the loop,
\* once left, stays left; the thread is never blocked on its way; and the
\* loop does reach its exit (which, by the order of the stages, a
\* submission in flight reaches through its outcome).
C21_StopDrainsAndTerminates ==
    /\ [][\A t \in consumers :
            (~running /\ pc[t] # "idle") =>
                /\ ~running'
                /\ pc[t] \in InFlight => pc'[t] \in InFlight \cup {"returned"}
                /\ pc[t] = "returned" => pc'[t] \in {"returned", "top"}
                /\ pc[t] = "top" => pc'[t] \in {"top", "exited"}
                /\ pc[t] = "exited" => pc'[t] = "exited"
                /\ pc[t] \in InFlight \cup {"returned", "top", "exited"} =>
                      /\ Len(transaction_queue') >= Len(transaction_queue)
                      /\ frame'[t].item \in {frame[t].item, NoValue}]_vars
    /\ [](\A t \in consumers :
            pc[t] \in InFlight \cup {"returned", "top"} => ENABLED LoopStep(t))
    /\ (~running /\ \E t \in consumers : pc[t] # "idle")
          ~> (\A t \in consumers : pc[t] = "exited")

\* the loop has left on the flag, after submitting, with work still queued
C21_Witness ==
    \E t \in consumers :
        /\ pc[t] = "exited"
        /\ ~running
        /\ num_transactions = 0
        /\ transaction_queue # <<>>
        /\ successful_submissions + failed_submissions > 0

(* ---- C22 ---- *)
\* the positions of the loop between two cycles, before it, and after it
BetweenCycles == {"idle", "top", "exited", "caught", "interrupted"}

\* C22: whenever the consuming loop is between cycles or has ended, every
\* work item enqueued so far is either counted as succeeded, counted as
\* failed, or still in the queue.
C22_NoItemLost ==
    \A t \in consumers :
        pc[t] \in BetweenCycles =>
            enqueued = successful_submissions + failed_submissions + Len(transaction_queue)

(* ---- C24 ---- *)
\* C24: no error of a work item leaves submit_spotdata_transaction: the
\* loop's handler for an escaped exception is never entered, and a call that
\* has ended has returned SUCCEEDED or FAILED.
C24_NoItemErrorStopsLoop ==
    \A t \in consumers :
        /\ pc[t] # "caught"
        /\ Returned(t) => frame[t].success \in {"SUCCEEDED", "FAILED"}

(* ---- C25 ---- *)
\* C25: when the start-up has resolved no sync node, or has failed in one of
\* its steps, the loop is never entered, no sequence number is reserved and
\* nothing is signed or broadcast.
C25_NoEndpointAbortsStartup ==
    (num_nodes = 0 \/ startup = "aborted") =>
        /\ \A t \in Threads : pc[t] = "idle"
        /\ \A a \in Accounts : reserved[a] = <<>>
        /\ \A t \in Threads : hist[t].signs = 0 /\ hist[t].attempts = <<>>

(* ------------------------- sender.py: the loop ------------------------ *)
\* sender.py has no queue and no running flag; its get_next_account,
\* get_next_nonce, get_next_contract, get_next_sync_node,
\* submit_spotdata_transaction, initialize_nonces and realign_all_nonces are
\* those of transactioneer_with_queue.py, the work item being the fixed
\* spot_data_params.

\* run_high_speed_loop entry
SenderStartLoop(t) ==
    /\ program = "sender"
    /\ t \in consumers
    /\ Initialized
    /\ pc[t] = "idle"
    /\ pc' = [pc EXCEPT ![t] = "top"]
    /\ read_log' = NoReads
    /\ UNCHANGED <<outside, config, pool, before, init_index, account_nonces, current_account_index,
                   current_sync_node_index, transaction_queue, running, counters,
                   last_nonce_check, nonce_realignments, frame, ledger, enqueued,
                   hist, reserved, epoch, reconciled, lastSel>>

\* the head of "while True": the target check, then the realignment trigger,
\* then on to get_next_account; a run is followed for MaxItems submissions
SenderLoopTop(t) ==
    /\ program = "sender"
    /\ pc[t] = "top"
    /\ pc' = [pc EXCEPT ![t] =
                IF TargetReached(num_transactions, submissions_count) THEN "exited"
                ELSE IF RealignDue(submissions_count, last_nonce_check)
                     THEN "realign_read"
                ELSE "account"]
    /\ pc'[t] # "exited" => successful_submissions + failed_submissions < MaxItems
    /\ IF pc'[t] = "realign_read"
       THEN before' = account_nonces /\ read_log' = NoReads
       ELSE UNCHANGED passlog
    /\ hist' = [hist EXCEPT ![t] = EmptyHist]
    /\ UNCHANGED <<outside, config, pool, init_index, account_nonces, current_account_index,
                   current_sync_node_index, transaction_queue, running, counters,
                   last_nonce_check, nonce_realignments, frame, ledger, enqueued,
                   reserved, epoch, reconciled, lastSel>>

\* the end of realign_all_nonces and the loop's
\* self.last_nonce_check = self.submissions_count
SenderRealignDone(t) ==
    /\ program = "sender"
    /\ pc[t] = "realign_read"
    /\ frame[t].realign_index = NumAccounts
    /\ nonce_realignments' = nonce_realignments + 1
    /\ last_nonce_check' = submissions_count
    /\ frame' = [frame EXCEPT ![t].realign_index = 0]
    /\ pc' = [pc EXCEPT ![t] = "account"]
    /\ read_log' = NoReads
    /\ before' = NoSnapshot
    /\ UNCHANGED <<outside, config, pool, init_index, account_nonces, current_account_index,
                   current_sync_node_index, transaction_queue, running, counters,
                   ledger, enqueued, hist, reserved, epoch, reconciled, lastSel>>

\* what the loop shares with transactioneer_with_queue.py
SenderShared(t) ==
    \/ RealignRead(t)
    \/ RealignWrite(t)
    \/ get_next_account(t)
    \/ get_next_nonce(t)
    \/ get_next_contract(t)
    \/ BuildAndSign(t)
    \/ Send(t)
    \/ FinishCycle(t)

\* sender.py as main() runs it: run(num_transactions=MAX_TX_TO_SUBMIT)
InitSender ==
    /\ InitCommon
    /\ program = "sender"
    /\ ProducerIdle
    /\ ScriptsIdle
    /\ num_nodes \in 1 .. MaxNodes
    /\ startup = "nonces"
    /\ malformed = {}
    /\ consumers = {"t1"}
    /\ num_transactions \in {0, MaxTarget}
    /\ pc = [t \in Threads |-> "idle"]

NextSender ==
    \/ InitializeNonce
    \/ \E t \in Threads : SenderStartLoop(t)
    \/ \E t \in Threads : SenderLoopTop(t)
    \/ \E t \in Threads : SenderRealignDone(t)
    \/ \E t \in Threads : SenderShared(t)
    \/ \E a \in Accounts : Mine(a)

SpecSender == InitSender /\ [][NextSender]_vars

(* --------------------------- fund_accounts.py ------------------------- *)
\* the entries of funding_results whose transaction was broadcast
Broadcast == {"confirmed", "reverted", "no_receipt"}

\* the ledger's count of the main account: it has mined the transactions of
\* the calls up to the first one that broadcast nothing
RECURSIVE SentPrefix(_)
SentPrefix(results) ==
    IF results = <<>> \/ Head(results).outcome \notin Broadcast THEN 0
    ELSE 1 + SentPrefix(Tail(results))

MainLedgerCount == main_initial + SentPrefix(funding_results)

\* how a call that took sequence number nonce can end: the transfer is
\* confirmed (status 1) or reverted (status 0) when the ledger is at that
\* number; the receipt wait times out; send_raw_transaction raises; or
\* to_checksum_address / sign_transaction raises before the broadcast
FundOutcomes(nonce) ==
    (IF nonce = MainLedgerCount THEN {"confirmed", "reverted"} ELSE {})
        \cup {"no_receipt", "send_failed", "build_failed"}

\* (variant) a failed call gives its sequence number back
MainNonceAfterFailure_Released(nonce, outcome) ==
    IF outcome = "confirmed" THEN nonce ELSE nonce - 1

\* fund_single_address after get_next_main_nonce: no path writes main_nonce
MainNonceAfterFailure(nonce, outcome) == nonce

\* initialize_network_config: self.main_nonce =
\* get_transaction_count(main_address); a failure is raised again and ends run()
initialize_network_config ==
    /\ program = "fund_accounts"
    /\ funder_pc = "idle"
    /\ \E ok \in BOOLEAN :
         IF ok
         THEN main_nonce' = main_initial /\ funder_pc' = "ready"
         ELSE main_nonce' = main_nonce /\ funder_pc' = "aborted"
    /\ UNCHANGED <<engine, program, transactions_list, early_stop, main_initial,
                   funding_results, quick_vars, claim_vars, monitor_vars>>

\* one iteration of fund_all_addresses_sequential on a well-formed record:
\* fund_single_address takes the next number under nonce_lock
\* (current_nonce = self.main_nonce; self.main_nonce += 1), builds, signs,
\* sends and waits for the receipt; every failure returns (False, ...)
fund_single_address ==
    /\ program = "fund_accounts"
    /\ funder_pc = "ready"
    /\ Len(funding_results) < MaxFunded
    /\ LET current_nonce == main_nonce
       IN \E outcome \in FundOutcomes(current_nonce) :
            /\ main_nonce' = MainNonceAfterFailure(main_nonce + 1, outcome)
            /\ funding_results' =
                 Append(funding_results,
                        [nonce |-> current_nonce, outcome |-> outcome,
                         success |-> (outcome = "confirmed")])
    /\ UNCHANGED <<engine, program, transactions_list, early_stop, main_initial,
                   funder_pc, quick_vars, claim_vars, monitor_vars>>

\* fund_single_address on a record without 'address' or 'index': the
\* KeyError comes before get_next_main_nonce, and the handler's log line
\* reads the unbound index, so the call raises and run() ends
fund_single_address_KeyError ==
    /\ program = "fund_accounts"
    /\ funder_pc = "ready"
    /\ Len(funding_results) < MaxFunded
    /\ funding_results' =
         Append(funding_results,
                [nonce |-> NoValue, outcome |-> "raised", success |-> FALSE])
    /\ funder_pc' = "aborted"
    /\ UNCHANGED <<engine, program, transactions_list, early_stop, main_initial,
                   main_nonce, quick_vars, claim_vars, monitor_vars>>

\* the end of the loop over accounts_data
FundingCompleted ==
    /\ program = "fund_accounts"
    /\ funder_pc = "ready"
    /\ Len(funding_results) = MaxFunded
    /\ funder_pc' = "done"
    /\ UNCHANGED <<engine, program, transactions_list, early_stop, main_initial,
                   main_nonce, funding_results, quick_vars, claim_vars, monitor_vars>>

\* fund_accounts.py from run()
InitFunder ==
    /\ EngineOff
    /\ program = "fund_accounts"
    /\ ProducerIdle
    /\ main_initial \in 0 .. MaxSeed
    /\ main_nonce = NoValue
    /\ funding_results = <<>>
    /\ funder_pc = "idle"
    /\ QuickIdle /\ ClaimIdle /\ MonitorIdle

NextFunder ==
    \/ initialize_network_config
    \/ fund_single_address
    \/ fund_single_address_KeyError
    \/ FundingCompleted

SpecFunder == InitFunder /\ [][NextFunder]_vars

(* --------------------------- quick_funding.py ------------------------- *)
\* funders and targets are named by their position in funding_accounts and
\* target_accounts; the records are well formed and the addresses distinct
Funders == 0 .. (num_funders - 1)
Targets == 0 .. (num_targets - 1)

\* what the ledger holds for a funding account at start-up
FunderLedger(f) == IF f % 2 = 1 THEN MaxSeed ELSE 0

\* (variant) every target goes to the first funder
ScheduleOwner_First(i, n) == 0

\* funder_index = i % len(self.funding_accounts)
ScheduleOwner(i, n) == i % n

\* for i, target_account in enumerate(self.target_accounts):
\*     self.funding_schedule[funding_account['address']].append(target_account)
RECURSIVE BuildSchedule(_, _, _, _)
BuildSchedule(i, n_targets, n_funders, schedule) ==
    IF i = n_targets THEN schedule
    ELSE BuildSchedule(i + 1, n_targets, n_funders,
                       [schedule EXCEPT ![ScheduleOwner(i, n_funders)] = Append(@, i)])

\* initialize_funding_nonces_and_schedule: the nonce of every funding
\* account from the ledger, 0 where the read fails; then the schedule
initialize_funding_nonces_and_schedule ==
    /\ program = "quick_funding"
    /\ quick_pc.phase = "idle"
    /\ \E failed \in SUBSET Funders :
         funding_nonces' = [f \in Funders |-> IF f \in failed THEN 0 ELSE FunderLedger(f)]
    /\ funding_schedule' =
         BuildSchedule(0, num_targets, num_funders, [f \in Funders |-> <<>>])
    /\ quick_pc' = [phase |-> "funding", funder |-> 0, pos |-> 0]
    /\ UNCHANGED <<engine, program, transactions_list, early_stop, funder_vars,
                   num_funders, num_targets, funding_attempts, successful_fundings,
                   failed_fundings, fund_log, claim_vars, monitor_vars>>

\* one iteration of fund_sequential_worker: fund_single_target takes the
\* funder's next nonce, builds, signs and sends; a success counts an attempt
\* and a success, an exception counts a failure and returns (False, None)
fund_single_target ==
    /\ program = "quick_funding"
    /\ quick_pc.phase = "funding"
    /\ quick_pc.funder < num_funders
    /\ quick_pc.pos < Len(funding_schedule[quick_pc.funder])
    /\ LET f == quick_pc.funder
           target == funding_schedule[f][quick_pc.pos + 1]
           nonce == funding_nonces[f]
       IN \E ok \in BOOLEAN :
            /\ funding_nonces' = [funding_nonces EXCEPT ![f] = @ + 1]
            /\ IF ok
               THEN /\ funding_attempts' = funding_attempts + 1
                    /\ successful_fundings' = successful_fundings + 1
                    /\ UNCHANGED failed_fundings
               ELSE /\ failed_fundings' = failed_fundings + 1
                    /\ funding_attempts' = AttemptsAfterFailure(funding_attempts)
                    /\ UNCHANGED successful_fundings
            /\ fund_log' = Append(fund_log, [funder |-> f, target |-> target,
                                             nonce |-> nonce, success |-> ok])
    /\ quick_pc' = [quick_pc EXCEPT !.pos = @ + 1]
    /\ UNCHANGED <<engine, program, transactions_list, early_stop, funder_vars,
                   num_funders, num_targets, funding_schedule, claim_vars,
                   monitor_vars>>

\* fund_sequential_worker returns: sequential_funding_process goes on to the
\* next funding account
WorkerCompleted ==
    /\ program = "quick_funding"
    /\ quick_pc.phase = "funding"
    /\ quick_pc.funder < num_funders
    /\ quick_pc.pos = Len(funding_schedule[quick_pc.funder])
    /\ quick_pc' = [quick_pc EXCEPT !.funder = @ + 1, !.pos = 0]
    /\ UNCHANGED <<engine, program, transactions_list, early_stop, funder_vars,
                   num_funders, num_targets, funding_nonces, funding_schedule,
                   funding_attempts, successful_fundings, failed_fundings, fund_log,
                   claim_vars, monitor_vars>>

\* the end of the loop of sequential_funding_process
FundingProcessCompleted ==
    /\ program = "quick_funding"
    /\ quick_pc.phase = "funding"
    /\ quick_pc.funder = num_funders
    /\ quick_pc' = [quick_pc EXCEPT !.phase = "done"]
    /\ UNCHANGED <<engine, program, transactions_list, early_stop, funder_vars,
                   num_funders, num_targets, funding_nonces, funding_schedule,
                   funding_attempts, successful_fundings, failed_fundings, fund_log,
                   claim_vars, monitor_vars>>

\* quick_funding.py from run(), after load_accounts has split the accounts
\* into funding sources (at least one) and targets
InitQuick ==
    /\ EngineOff
    /\ program = "quick_funding"
    /\ ProducerIdle
    /\ FunderIdle /\ ClaimIdle /\ MonitorIdle
    /\ num_funders \in 1 .. MaxFunders
    /\ num_targets \in 0 .. MaxTargets
    /\ funding_nonces = <<>>
    /\ funding_schedule = <<>>
    /\ funding_attempts = 0
    /\ successful_fundings = 0
    /\ failed_fundings = 0
    /\ quick_pc = [phase |-> "idle", funder |-> 0, pos |-> 0]
    /\ fund_log = <<>>

NextQuick ==
    \/ initialize_funding_nonces_and_schedule
    \/ fund_single_target
    \/ WorkerCompleted
    \/ FundingProcessCompleted

SpecQuick == InitQuick /\ [][NextQuick]_vars

(* --------------------- claim_master_all_addresses.py ------------------ *)
\* initialize_account_nonces: the nonce of every account from the ledger, 0
\* where the read fails
initialize_account_nonces ==
    /\ program = "claim_master_all_addresses"
    /\ claim_index = NoValue
    /\ \E failed \in SUBSET Accounts :
         account_nonces' = [a \in Accounts |-> IF a \in failed THEN 0 ELSE chain[a]]
    /\ claim_index' = 0
    /\ UNCHANGED <<config, pool, passlog, init_index, current_account_index,
                   current_sync_node_index, transaction_queue, running, counters,
                   last_nonce_check, nonce_realignments, pc, frame, ledger, enqueued,
                   hist, reserved, epoch, reconciled, lastSel, program,
                   transactions_list, early_stop, funder_vars, quick_vars,
                   total_claims_attempted, total_claims_successful,
                   total_claims_failed, monitor_vars>>

\* one iteration of sequential_claim_master_all_accounts:
\* claim_master_single_account takes the account's nonce
\* (nonce = self.account_nonces[address]; self.account_nonces[address] += 1),
\* builds, signs and sends; a success counts an attempt and a success, an
\* exception counts a failure and returns (False, None)
claim_master_single_account ==
    /\ program = "claim_master_all_addresses"
    /\ claim_index \in Accounts
    /\ account_nonces' = [account_nonces EXCEPT ![claim_index] = @ + 1]
    /\ \E ok \in BOOLEAN :
         IF ok
         THEN /\ total_claims_attempted' = total_claims_attempted + 1
              /\ total_claims_successful' = total_claims_successful + 1
              /\ UNCHANGED total_claims_failed
         ELSE /\ total_claims_failed' = total_claims_failed + 1
              /\ total_claims_attempted' = AttemptsAfterFailure(total_claims_attempted)
              /\ UNCHANGED total_claims_successful
    /\ claim_index' = claim_index + 1
    /\ UNCHANGED <<config, pool, passlog, init_index, current_account_index,
                   current_sync_node_index, transaction_queue, running, counters,
                   last_nonce_check, nonce_realignments, pc, frame, ledger, enqueued,
                   hist, reserved, epoch, reconciled, lastSel, program,
                   transactions_list, early_stop, funder_vars, quick_vars,
                   monitor_vars>>

\* claim_master_all_addresses.py from run(), the accounts loaded
InitClaim ==
    /\ EngineOff
    /\ program = "claim_master_all_addresses"
    /\ ProducerIdle
    /\ ScriptsIdle

(* ------------------- the scripts that submit transactions ------------- *)
\* one of the four scripts that count their submissions is run
InitSuite == Init \/ InitSender \/ InitQuick \/ InitClaim

NextSuite ==
    \/ (program = "transactioneer_with_queue" /\ add_transaction)
    \/ (program = "transactioneer_with_queue" /\ stop)
    \/ (program = "transactioneer_with_queue" /\ \E t \in Threads : StartLoop(t))
    \/ (program = "transactioneer_with_queue" /\ \E t \in Threads : LoopStep(t))
    \/ (program \in {"transactioneer_with_queue", "sender"} /\ InitializeNonce)
    \/ (program \in {"transactioneer_with_queue", "sender"}
            /\ \E a \in Accounts : Mine(a))
    \/ \E t \in Threads : SenderStartLoop(t)
    \/ \E t \in Threads : SenderLoopTop(t)
    \/ \E t \in Threads : SenderRealignDone(t)
    \/ (program = "sender" /\ \E t \in Threads : SenderShared(t))
    \/ initialize_funding_nonces_and_schedule
    \/ fund_single_target
    \/ WorkerCompleted
    \/ FundingProcessCompleted
    \/ initialize_account_nonces
    \/ claim_master_single_account

SpecSuite == InitSuite /\ [][NextSuite]_vars

(* ----------------------- monitor_nonces_increase.py ------------------- *)
\* load_monitored_accounts: for i in range(0, len(all_accounts), sample_every_nth)
Monitored == {i \in Accounts : i % sample_every_nth = 0}

\* (variant) the cut keeps the oldest entries
KeepLast_Oldest(history) ==
    IF Len(history) > HistoryLimit THEN SubSeq(history, 1, HistoryLimit) ELSE history

\* if len(history) > 10: history = history[-10:]
KeepLast(history) ==
    IF Len(history) > HistoryLimit
    THEN SubSeq(history, Len(history) - HistoryLimit + 1, Len(history))
    ELSE history

\* calculate_nonce_increases for one account whose read succeeded: with two
\* entries or more in the history, history[-2] is the previous sample
ReportLine(history, current_nonce) ==
    IF Len(history) >= 2
    THEN [current_nonce |-> current_nonce,
          prev_nonce |-> history[Len(history) - 1][2],
          increase |-> current_nonce - history[Len(history) - 1][2]]
    ELSE [current_nonce |-> current_nonce, prev_nonce |-> current_nonce,
          increase |-> 0]

\* run_monitoring_cycle: get_current_nonces reads the ledger for every
\* monitored account, appends (current_time, nonce) and cuts the history,
\* or records None when the read fails; calculate_nonce_increases skips the
\* accounts recorded as None and reports the others. The ledger's counts
\* only grow; a run is followed for MaxCycles cycles and MaxFailedReads
\* failed reads.
run_monitoring_cycle ==
    /\ program = "monitor_nonces_increase"
    /\ monitor_cycles < MaxCycles
    /\ \E read \in [Monitored -> 0 .. MaxSeed], failed \in SUBSET Monitored :
         /\ \A a \in Monitored : read[a] >= monitor_chain[a]
         /\ monitor_failures + Cardinality(failed) <= MaxFailedReads
         /\ monitor_chain' = read
         /\ monitor_failures' = monitor_failures + Cardinality(failed)
         /\ nonce_history' =
              [a \in Monitored |->
                  IF a \in failed THEN nonce_history[a]
                  ELSE KeepLast(Append(nonce_history[a],
                                       <<monitor_cycles + 1, read[a]>>))]
         /\ increases_data' =
              [a \in Monitored \ failed |-> ReportLine(nonce_history'[a], read[a])]
    /\ monitor_cycles' = monitor_cycles + 1
    /\ UNCHANGED <<engine, program, transactions_list, early_stop, funder_vars,
                   quick_vars, claim_vars>>

\* monitor_nonces_increase.py after load_monitored_accounts
InitMonitor ==
    /\ EngineOff
    /\ program = "monitor_nonces_increase"
    /\ ProducerIdle
    /\ FunderIdle /\ QuickIdle /\ ClaimIdle
    /\ nonce_history = [a \in Monitored |-> <<>>]
    /\ increases_data = [a \in {} |-> 0]
    /\ monitor_cycles = 0
    /\ monitor_chain \in [Monitored -> 0 .. MaxSeed]
    /\ monitor_failures = 0

NextMonitor == run_monitoring_cycle

SpecMonitor == InitMonitor /\ [][NextMonitor]_vars

(* ---- C33 ---- *)
\* C33: a realignment pass starts only when submissions_count is a positive
\* multiple of NONCE_REALIGNMENT_ITERATIONS other than last_nonce_check, and
\* its end sets last_nonce_check to the count; so the passes completed are
\* never more than the multiples the count has reached (one per multiple at
\* most), a pass in progress is for a multiple no pass was completed for, and
\* no pass runs while the count is 0.
C33_ReconcileOncePerMultiple ==
    /\ [](/\ last_nonce_check <= submissions_count
          /\ last_nonce_check % NONCE_REALIGNMENT_ITERATIONS = 0
          /\ nonce_realignments <= last_nonce_check \div NONCE_REALIGNMENT_ITERATIONS
          /\ submissions_count = 0 => nonce_realignments = 0
          /\ \A t \in consumers :
                pc[t] \in {"realign_read", "realign_write"} =>
                    /\ RealignDue(submissions_count, last_nonce_check)
                    /\ last_nonce_check < submissions_count)
    /\ [][/\ nonce_realignments' # nonce_realignments =>
               /\ nonce_realignments' = nonce_realignments + 1
               /\ last_nonce_check # submissions_count
               /\ last_nonce_check' = submissions_count
          /\ \A t \in consumers :
                (pc[t] = "top" /\ pc'[t] = "dequeue"
                    /\ submissions_count = last_nonce_check) =>
                    UNCHANGED <<nonce_realignments, account_nonces, last_nonce_check>>]_vars

\* the count has stayed on the multiple of the one pass made so far through
\* a failed submission and an empty dequeue
C33_Witness ==
    \E t \in consumers :
        /\ pc[t] = "top"
        /\ hist[t].empty_poll
        /\ submissions_count = NONCE_REALIGNMENT_ITERATIONS
        /\ last_nonce_check = submissions_count
        /\ nonce_realignments = 1
        /\ failed_submissions >= 1

(* ---- C35 ---- *)
\* C35: in the single-consumer loop a realignment pass is entered from the
\* top of a cycle only, and while it reads or overwrites counters the
\* consumer holds no work item: no item taken, no account selected, no
\* nonce reserved, nothing signed and no attempt made in the cycle.
C35_ReconcileOnlyAtCycleTop ==
    /\ [](\A t \in consumers :
            pc[t] \in {"realign_read", "realign_write"} =>
                /\ frame[t].item = NoValue
                /\ frame[t].account = NoValue
                /\ frame[t].nonce = NoValue
                /\ frame[t].signed_tx = <<>>
                /\ hist[t].reserves = 0
                /\ hist[t].attempts = <<>>
                /\ \A u \in consumers : pc[u] \notin InFlight)
    /\ [][\A t \in consumers :
            (pc'[t] = "realign_read" /\ pc[t] \notin {"realign_read", "realign_write"})
                => pc[t] = "top"]_vars

\* a pass about to overwrite a counter the ledger disagrees with, after
\* work items were submitted
C35_Witness ==
    \E t \in consumers :
        /\ pc[t] = "realign_write"
        /\ frame[t].blockchain_nonce # account_nonces[frame[t].realign_index]
        /\ successful_submissions >= NONCE_REALIGNMENT_ITERATIONS
        /\ failed_submissions >= 1

(* ---- C36 ---- *)
\* the engine of main(), with stop() also called before the loop is entered
NextStop ==
    \/ stop_before_loop
    \/ InitializeNonce
    \/ add_transaction
    \/ stop
    \/ \E t \in Threads : StartLoop(t)
    \/ \E t \in Threads : LoopStep(t)
    \/ \E a \in Accounts : Mine(a)

SpecStop == Init /\ [][NextStop]_vars

\* C36: entering run_high_speed_loop sets running to TRUE whatever it was, so
\* after a stop() made before the entry the loop can still be entered, and
\* once entered it leaves only when the flag is FALSE again (a later stop())
\* or the target count is reached; an earlier stop() alone never ends it.
C36_EarlyStopHasNoEffect ==
    /\ [](\A t \in consumers :
            /\ (Initialized /\ pc[t] = "idle") => ENABLED StartLoop(t)
            /\ (early_stop /\ running /\ pc[t] = "top"
                    /\ (num_transactions = 0 \/ submissions_count < num_transactions))
                  => ENABLED (LoopTop(t) /\ pc'[t] # "exited"))
    /\ [][\A t \in consumers :
            /\ (pc[t] = "idle" /\ pc'[t] # "idle") => (pc'[t] = "top" /\ running')
            /\ (pc[t] = "top" /\ pc'[t] = "exited") =>
                  \/ ~running
                  \/ num_transactions # 0 /\ submissions_count >= num_transactions]_vars

\* stop() came before the entry, and the loop has gone on to submit an item
C36_Witness ==
    \E t \in consumers :
        /\ early_stop
        /\ running
        /\ pc[t] = "returned"
        /\ frame[t].success = "SUCCEEDED"
        /\ successful_submissions >= 1

(* ---- C31 ---- *)
\* the engine fed by one producer, which calls add_transaction and
\* add_transactions_batch one after the other, and one consumer loop
InitBatch == Init /\ num_nodes = 1 /\ num_transactions = 0

NextBatch ==
    \/ \E n \in 1 .. MaxBatch : add_transactions_batch(n)
    \/ BatchPut
    \/ (transactions_list = <<>> /\ add_transaction)
    \/ InitializeNonce
    \/ \E t \in Threads : StartLoop(t)
    \/ \E t \in Threads : LoopStep(t)

SpecBatch == InitBatch /\ [][NextBatch]_vars

\* the queue that n calls of add_transaction leave behind when d items were
\* taken from it: the items d+1 .. n in the order of the calls
OneByOne(d, n) == [i \in 1 .. (n - d) |-> d + i]

\* C31: at every point of a batch the queue is what enqueuing the same items
\* one by one in list order gives (the items not yet put being the rest of
\* the list in order), and the single consumer takes the items in the order
\* they were enqueued: each item it takes is the oldest one, the successor
\* of the one it took before.
C31_BatchIsOneByOneAndFifo ==
    /\ [](/\ transaction_queue =
                OneByOne(enqueued - Len(transaction_queue), enqueued)
          /\ transactions_list =
                [i \in 1 .. Len(transactions_list) |-> enqueued + i])
    /\ [][\A t \in consumers :
            (pc[t] = "dequeue" /\ pc'[t] = "account") =>
                /\ frame'[t].item = Head(transaction_queue)
                /\ frame'[t].item = enqueued - Len(transaction_queue) + 1
                /\ transaction_queue' = Tail(transaction_queue)]_vars

\* a batch of three called after one add_transaction: the consumer has the
\* single item in hand, two items of the batch fill the queue and the put of
\* the third waits
C31_Witness ==
    \E t \in consumers :
        /\ transactions_list = <<4>>
        /\ transaction_queue = <<2, 3>>
        /\ QueueFull(transaction_queue)
        /\ frame[t].item = 1
        /\ pc[t] = "account"

(* ---- C37 ---- *)
\* C37: in the faucet funder the k-th call of fund_single_address that takes
\* a sequence number takes (the ledger count read at start-up) + k - 1,
\* whatever the earlier calls ended with; main_nonce is that count plus the
\* number of calls, it changes only by one with a call and is never set
\* from the ledger again; a call that takes no number raises and is the last.
C37_MainNonceAdvancesPerCall ==
    /\ [](funder_pc \in {"ready", "done"} \/ funding_results # <<>> =>
            /\ \A k \in 1 .. Len(funding_results) :
                 IF funding_results[k].outcome = "raised"
                 THEN k = Len(funding_results) /\ funder_pc = "aborted"
                 ELSE funding_results[k].nonce = main_initial + k - 1
            /\ main_nonce = main_initial
                  + Cardinality({k \in 1 .. Len(funding_results) :
                                   funding_results[k].outcome # "raised"}))
    /\ [][main_nonce # NoValue /\ main_nonce' # main_nonce =>
            /\ main_nonce' = main_nonce + 1
            /\ Len(funding_results') = Len(funding_results) + 1]_vars

\* the third call takes the start-up count + 2 after a call that failed
\* before the broadcast and one that failed in it, the ledger still being
\* at the start-up count
C37_Witness ==
    /\ Len(funding_results) = 3
    /\ funding_results[1].outcome = "build_failed"
    /\ funding_results[2].outcome = "send_failed"
    /\ funding_results[3].outcome = "no_receipt"
    /\ funding_results[3].nonce = main_initial + 2
    /\ main_initial > 0
    /\ MainLedgerCount = main_initial
    /\ main_nonce = main_initial + 3

(* ---- C38 ---- *)
\* the calls of fund_single_target made for target i
AttemptsFor(i) == {k \in 1 .. Len(fund_log) : fund_log[k].target = i}

\* C38: once built, the schedule is a partition of the targets: target i is
\* in the list of funder i mod F, once, and in no other list; the lists
\* hold nothing else and their sizes differ by at most one. The funding
\* pass never makes more than one attempt for a target, makes each attempt
\* from the funder the target is assigned to, and when it ends it has made
\* exactly one attempt for every target, whatever failed on the way.
C38_SchedulePartitionAndOnePass ==
    quick_pc.phase \in {"funding", "done"} =>
        /\ DOMAIN funding_schedule = Funders
        /\ \A i \in Targets, f \in Funders :
             Cardinality({p \in 1 .. Len(funding_schedule[f]) :
                             funding_schedule[f][p] = i})
                = (IF f = i % num_funders THEN 1 ELSE 0)
        /\ \A f \in Funders :
             \A p \in 1 .. Len(funding_schedule[f]) :
                 funding_schedule[f][p] \in Targets
        /\ \A f, g \in Funders :
             Len(funding_schedule[f]) - Len(funding_schedule[g]) <= 1
        /\ \A i \in Targets :
             /\ Cardinality(AttemptsFor(i)) <= 1
             /\ \A k \in AttemptsFor(i) : fund_log[k].funder = i % num_funders
             /\ quick_pc.phase = "done" => Cardinality(AttemptsFor(i)) = 1
        /\ Len(fund_log) = successful_fundings + failed_fundings

\* a finished pass of several funders in which the first attempt failed and
\* attempts of the same funder and of later funders followed
C38_Witness ==
    /\ quick_pc.phase = "done"
    /\ num_funders = MaxFunders
    /\ num_targets = MaxTargets
    /\ fund_log[1].success = FALSE
    /\ fund_log[2].funder = fund_log[1].funder
    /\ fund_log[MaxTargets].funder = MaxFunders - 1
    /\ failed_fundings = 1

(* ---- C32 ---- *)
\* C32: in each of the four scripts the attempt counter equals the success
\* counter in every state, the two grow together by one and only on a
\* successful broadcast, and a failure adds one to the failed counter and
\* leaves the other two alone.
C32_AttemptsCountSuccessesOnly ==
    /\ [](/\ submissions_count = successful_submissions
          /\ funding_attempts = successful_fundings
          /\ total_claims_attempted = total_claims_successful)
    /\ [][/\ failed_submissions' # failed_submissions =>
               /\ failed_submissions' = failed_submissions + 1
               /\ UNCHANGED <<submissions_count, successful_submissions, accepted>>
          /\ failed_fundings' # failed_fundings =>
               /\ failed_fundings' = failed_fundings + 1
               /\ UNCHANGED <<funding_attempts, successful_fundings>>
          /\ total_claims_failed' # total_claims_failed =>
               /\ total_claims_failed' = total_claims_failed + 1
               /\ UNCHANGED <<total_claims_attempted, total_claims_successful>>
          /\ submissions_count' # submissions_count =>
               /\ submissions_count' = submissions_count + 1
               /\ \E t \in consumers :
                    /\ Len(hist'[t].attempts) = Len(hist[t].attempts) + 1
                    /\ hist'[t].attempts[Len(hist'[t].attempts)].result = "ok"
          /\ funding_attempts' # funding_attempts =>
               /\ funding_attempts' = funding_attempts + 1
               /\ fund_log'[Len(fund_log')].success
          /\ total_claims_attempted' # total_claims_attempted =>
               total_claims_attempted' = total_claims_attempted + 1]_vars

\* sender.py after submissions that went through and submissions that failed
C32_Witness ==
    /\ program = "sender"
    /\ successful_submissions >= 2
    /\ failed_submissions >= 2
    /\ submissions_count = successful_submissions

(* ---- C34 ---- *)
\* C34: with a target T > 0 the loop leaves through the target check only
\* in a state with exactly T successful submissions, whatever the number of
\* failed ones; the loop of sender.py has no other exit, so it has not
\* ended while fewer than T submissions succeeded, and after a failure its
\* next cycle can start.
C34_TargetCountsSuccessesOnly ==
    /\ [](\A t \in consumers :
            /\ (program = "sender" /\ pc[t] = "exited") =>
                  /\ num_transactions > 0
                  /\ successful_submissions = num_transactions
                  /\ submissions_count = num_transactions
            /\ (program = "sender" /\ pc[t] = "top"
                    /\ ~TargetReached(num_transactions, successful_submissions)
                    /\ successful_submissions + failed_submissions < MaxItems) =>
                  ENABLED (SenderLoopTop(t) /\ pc'[t] # "exited"))
    /\ [][\A t \in consumers :
            (pc[t] = "top" /\ pc'[t] = "exited" /\ (program = "sender" \/ running)) =>
                /\ num_transactions > 0
                /\ successful_submissions = num_transactions]_vars

\* sender.py has left through the target check after failed submissions
C34_Witness ==
    \E t \in consumers :
        /\ program = "sender"
        /\ pc[t] = "exited"
        /\ num_transactions = MaxTarget
        /\ successful_submissions = MaxTarget
        /\ failed_submissions >= 2

(* ---- C39 ---- *)
\* C39: the history of a monitored account never holds more than 10
\* samples and its samples are in the order they were taken; a cycle whose
\* read succeeds makes the new sample the last entry and keeps before it
\* the latest entries of the old history, in order, and reports the new
\* count minus the count of the sample taken before (0 when there was
\* none); a cycle whose read fails leaves the history as it is and reports
\* no line for the account.
C39_HistoryHoldsLatestSamples ==
    /\ [](\A a \in DOMAIN nonce_history :
            /\ Len(nonce_history[a]) <= 10
            /\ \A k \in 1 .. Len(nonce_history[a]) - 1 :
                 nonce_history[a][k][1] < nonce_history[a][k + 1][1])
    /\ [][monitor_cycles' # monitor_cycles =>
            \A a \in Monitored :
              LET old == nonce_history[a]
                  new == nonce_history'[a]
                  kept == Len(new) - 1
              IN IF a \in DOMAIN increases_data'
                 THEN /\ Len(new) = (IF Len(old) < 10 THEN Len(old) + 1 ELSE 10)
                      /\ new[Len(new)] = <<monitor_cycles', monitor_chain'[a]>>
                      /\ \A k \in 1 .. kept : new[k] = old[Len(old) - kept + k]
                      /\ increases_data'[a].current_nonce = monitor_chain'[a]
                      /\ increases_data'[a].increase =
                            (IF old = <<>> THEN 0
                             ELSE monitor_chain'[a] - old[Len(old)][2])
                 ELSE new = old]_vars

\* twelve cycles with one failed read: the first sample has been dropped,
\* the ten latest are kept, and the latest cycle reported an increase
C39_Witness ==
    /\ monitor_cycles = 12
    /\ monitor_failures = 1
    /\ 0 \in DOMAIN increases_data
    /\ increases_data[0].increase = 1
    /\ Len(nonce_history[0]) = 10
    /\ nonce_history[0][1][1] = 3
    /\ nonce_history[0][10] = <<12, monitor_chain[0]>>

(* ---- C30 ---- *)
\* the threads whose work item has been given an account
WithAccount == {t \in Threads : pc[t] \in {"reserve", "contract", "build", "send", "returned"}}

\* C30: accounts are selected round-robin.  The account cursor stays inside
\* the list; the work items, in the order they are taken from the queue, get
\* the accounts of the list in order, the i-th item the account (i - 1) mod N,
\* so an account comes again only after the N - 1 others; and the cursor is
\* the number of selections made so far, modulo N.
C30_AccountRoundRobin ==
    /\ current_account_index \in Accounts
    /\ \A t \in WithAccount :
          frame[t].account = (frame[t].item - 1) % NumAccounts
    /\ current_account_index =
          (enqueued - Len(transaction_queue)
              - Cardinality({t \in Threads : pc[t] = "account"})) % NumAccounts

\* the rotation has wrapped around: the item after the first N gets the first
\* account again
C30_Witness ==
    \E t \in WithAccount :
        /\ frame[t].item = NumAccounts + 1
        /\ frame[t].account = 0
        /\ current_account_index = 1 % NumAccounts

====
